---- MODULE Spec2Model ----
(***************************************************************************)
(* UWB proximity-chat unit firmware (esp32/unit_firmware): the TDMA slot   *)
(* scheduler (utils.h), the DS-TWR initiator and responder of the DW3000   *)
(* driver (dw3000_driver.h) and the ranging loop (main.cpp), for the       *)
(* three-unit roster of config.h running on one shared millisecond clock.  *)
(***************************************************************************)
EXTENDS Integers, Sequences, FiniteSets, TLC

\* ------------------------------------------------------------------------
\* config.h
\* ------------------------------------------------------------------------
PEER_IDS == <<"A", "B", "C">>
NUM_PEERS == 3
Units == {PEER_IDS[i] : i \in 1..NUM_PEERS}
\* UNIT_NUMERIC_ID = UNIT_ID - 'A' for the unit flashed with UNIT_ID = u
UNIT_NUMERIC_ID(u) == (CHOOSE i \in 1..NUM_PEERS : PEER_IDS[i] = u) - 1
TIME_SLOT_DURATION_MS == 200
CYCLE_DURATION_MS == NUM_PEERS * TIME_SLOT_DURATION_MS
MY_SLOT_OFFSET_MS(u) == UNIT_NUMERIC_ID(u) * TIME_SLOT_DURATION_MS
RANGING_INTERVAL_MS == 500
RANGING_TIMEOUT_MS == 100
RANGING_MAX_RETRIES == 3
\* 0.5; qualities are kept in hundredths
QUALITY_THRESHOLD == 50
\* dw3000_tx polls TXFRS for at most 100 ms
TX_TIMEOUT_MS == 100
\* loop(): delays of the three non-ranging branches
WIFI_WAIT_MS == 1000
SKIP_SELF_DELAY_MS == 10
IDLE_SLOT_DELAY_MS == 50
UWB_REINIT_PERIOD_MS == 5000
UDP_RETRY_COUNT == 3
UDP_RETRY_DELAY_MS == 100

\* ------------------------------------------------------------------------
\* Bounds of the model
\* ------------------------------------------------------------------------
\* width of the window of clock values examined after 0 and before the wrap
SlotWindow == 1300
\* the shared clock of the running system stops at MaxClock
MaxClock == 1300
\* and, where the callers also respond, at ProtoMaxClock
ProtoMaxClock == 210
\* udp_send is given 1..MaxUdpLen bytes
MaxUdpLen == 2
\* the first loop() iteration of a unit starts at k*StartStepMs, k <= MaxStartSteps
StartStepMs == 150
MaxStartSteps == 1
\* faults the environment injects in one run (a radio transmit failure, a
\* Wi-Fi drop, a failed hardware initialisation, a failed UDP send, a frame
\* of a foreign transmitter)
MaxFaults == 1
\* largest value an uninitialised 64-bit word is drawn from
MaxGarbage == 1
\* timeout the caller of uwb_respond passes
ListenMs == 100
\* largest device time a collected timestamp is drawn from
MaxTick == 2
\* number of frames a unit has still to build before g_sequenceNum wraps,
\* at most, when the run is picked up late
SeqLead == 2
\* the estimator study takes timestamps that are multiples of
\* 2^TickUnitBits ticks
TickUnitBits == 24

\* ------------------------------------------------------------------------
\* millis(): unsigned long, 32 bits. A value is kept as two 16-bit limbs
\* <<hi, lo>> so that the wrap at 2^32 is the counter's own.
\* ------------------------------------------------------------------------
Limb == 2^16
U32(n) == <<(n \div Limb) % Limb, n % Limb>>
U32Add(m, d) ==
    LET s == m[2] + d
    IN  <<(m[1] + (s \div Limb)) % Limb, s % Limb>>
\* m % n for an unsigned 32-bit m and 0 < n < 2^15
U32Mod(m, n) == ((m[1] * (Limb % n)) + m[2]) % n
\* m - d modulo 2^32, for 0 <= d < 2^16
U32Sub(m, d) ==
    IF m[2] >= d THEN <<m[1], m[2] - d>>
    ELSE <<(m[1] + Limb - 1) % Limb, m[2] + Limb - d>>

\* utils.h isMyTimeSlot(), for the unit u at millis() = m
isMyTimeSlot_InclusiveEnd(u, m) ==
    LET cycleTime == U32Mod(m, CYCLE_DURATION_MS)
        slotStart == MY_SLOT_OFFSET_MS(u)
        slotEnd   == slotStart + TIME_SLOT_DURATION_MS
    IN  cycleTime >= slotStart /\ cycleTime <= slotEnd
isMyTimeSlot(u, m) ==
    LET cycleTime == U32Mod(m, CYCLE_DURATION_MS)
        slotStart == MY_SLOT_OFFSET_MS(u)
        slotEnd   == slotStart + TIME_SLOT_DURATION_MS
    IN  cycleTime >= slotStart /\ cycleTime < slotEnd

\* ------------------------------------------------------------------------
\* dw3000_driver.h: frames and the DS-TWR payload
\* ------------------------------------------------------------------------
MSG_TYPE_POLL == "POLL"
MSG_TYPE_RESP == "RESP"
MSG_TYPE_FINAL == "FINAL"
MSG_TYPE_REPORT == "REPORT"
MsgTypes == {MSG_TYPE_POLL, MSG_TYPE_RESP, MSG_TYPE_FINAL, MSG_TYPE_REPORT}

UWB_STATE_IDLE == "IDLE"
UWB_STATE_INIT == "INIT"
UWB_STATE_READY == "READY"
UWB_STATE_RANGING == "RANGING"
UWB_STATE_ERROR == "ERROR"

\* sizeof(UWBFrame.payload), sizeof(uint64_t), sizeof(TWRPayload)
PAYLOAD_BYTES == 32
WORD_BYTES == 8
TWR_PAYLOAD_BYTES == 48
PayloadWords == PAYLOAD_BYTES \div WORD_BYTES
\* index of each uint64_t field of struct TWRPayload
pollTxTime == 1
pollRxTime == 2
respTxTime == 3
respRxTime == 4
finalTxTime == 5
finalRxTime == 6
TWRFields == 1..(TWR_PAYLOAD_BYTES \div WORD_BYTES)

\* a word of memory that was never written: any read of it yields an
\* arbitrary value
Indet == 0 - 1
Uninit == 0..MaxGarbage
Resolve(w, g) == IF w = Indet THEN g ELSE w

Min(a, b) == IF a < b THEN a ELSE b
\* C integer division, truncating toward zero
TruncDiv(a, b) ==
    LET q == (IF a < 0 THEN 0 - a ELSE a) \div (IF b < 0 THEN 0 - b ELSE b)
    IN  IF (a < 0) = (b < 0) THEN q ELSE 0 - q

\* memset(&twr, 0, sizeof(twr))
ZeroTWR == [k \in TWRFields |-> 0]
\* an uninitialised local TWRPayload
UninitTWR == [k \in TWRFields |-> Indet]
\* struct UWBFrame: msgType follows nine bytes of header and precedes the
\* payload
MSGTYPE_OFFSET == 9
FRAME_BYTES == MSGTYPE_OFFSET + 1 + PAYLOAD_BYTES
\* len is the length dw3000_rx reports in *len
NoFrame ==
    [sequence |-> 0, destAddr |-> "-", sourceAddr |-> "-",
     msgType |-> "NONE", payload |-> [k \in 1..PayloadWords |-> 0], len |-> 0]

\* g_sequenceNum++ on a uint8_t that never leaves the byte
SequenceAfter_NoWrap(seq) == seq + 1
\* g_sequenceNum++ on the uint8_t g_sequenceNum
SequenceAfter(seq) == (seq + 1) % 256

\* build_frame for the unit `unit` with g_sequenceNum = seq; payloadLen = 0
\* stands for a null payload
build_frame(unit, seq, msgType, destID, payload, payloadLen) ==
    [sequence   |-> seq,
     destAddr   |-> destID,
     sourceAddr |-> unit,
     msgType    |-> msgType,
     payload    |-> [k \in 1..PayloadWords |->
                        IF payloadLen > 0
                           /\ k * WORD_BYTES <= Min(payloadLen, PAYLOAD_BYTES)
                        THEN payload[k] ELSE 0],
     len        |-> FRAME_BYTES]

\* field k of the TWRPayload a receiver overlays on frame->payload inside its
\* 128-byte rxBuffer: the fields beyond the frame's 32 payload bytes lie in
\* buffer bytes that no reception of a frame of sizeof(UWBFrame) writes
TWRField(buf, k) == IF k <= PayloadWords THEN buf.payload[k] ELSE Indet

\* micrometres of distance per tick of time of flight:
\* TIME_UNIT * SPEED_OF_LIGHT / 2 = 2.346 mm
UM_PER_TICK == 2346
MAX_PLAUSIBLE_MM == 100000
\* the denominator of calculate_distance_from_twr
TwrDenominator(t) ==
    (t[respRxTime] - t[pollTxTime]) + (t[finalRxTime] - t[respTxTime])
    + (t[respTxTime] - t[pollRxTime]) + (t[finalTxTime] - t[respRxTime])
\* calculate_distance_from_twr, in millimetres (DIST_OFFSET_M = 0)
calculate_distance_from_twr(t) ==
    LET Ra == t[respRxTime] - t[pollTxTime]
        Rb == t[finalRxTime] - t[respTxTime]
        Da == t[respTxTime] - t[pollRxTime]
        Db == t[finalTxTime] - t[respRxTime]
        tof_dtu == TruncDiv((Ra * Rb) - (Da * Db), Ra + Rb + Da + Db)
    IN  TruncDiv(tof_dtu * UM_PER_TICK, 1000)
\* a quality rule that trusts every completed exchange
Quality_AlwaysGood(distance) == 90
\* uwb_range: quality of a completed exchange, in hundredths
Quality(distance) ==
    IF distance < 0 \/ distance > MAX_PLAUSIBLE_MM THEN 30 ELSE 90

NoResult == [success |-> FALSE, distance |-> 0, quality |-> 0, peerID |-> "-"]
\* RangingResult result; declared without an initialiser
UninitResult ==
    [success |-> Indet, distance |-> Indet, quality |-> Indet, peerID |-> Indet]

\* uwb_init(): hwOk is whether the device answers on SPI
uwb_init(state, hwOk) ==
    IF state # UWB_STATE_IDLE THEN state
    ELSE IF hwOk THEN UWB_STATE_READY ELSE UWB_STATE_ERROR

\* ------------------------------------------------------------------------
\* wifi_udp.h: udp_send
\* ------------------------------------------------------------------------
\* no call of udp_send made yet
UdpIdle ==
    [pc |-> "idle", connected |-> FALSE, length |-> 0, attempt |-> 0,
     tries |-> <<>>, waited |-> 0, ret |-> FALSE]

VARIABLES
    ms,               \* scheduler study: the value millis() returns, as limbs
    tof_dtu,          \* estimator study: calculate_distance_from_twr's tof_dtu
    udp,              \* telemetry study: one call of udp_send
    now,              \* the shared millisecond clock
    pc,               \* where each unit's single thread is
    wake,             \* when the unit's delay() or receive timeout ends
    g_uwbState, g_sequenceNum, g_currentPeerIdx, g_stats, g_lastResult,
    result,           \* loop(): local RangingResult result, filled by uwb_range
    peerID,           \* uwb_range: parameter peerID
    twr,              \* uwb_range: local TWRPayload twr
    rxBuffer,         \* the frame dw3000_rx copied into the caller's buffer
    rxDone,           \* RXFCG: a good frame was received
    TX_TIME, RX_TIME, \* the radio's timestamp registers
    dwClock,          \* device time
    resp,             \* uwb_respond: initiatorID and the three timestamps
    lastTx,           \* the last frame each unit put on the air
    lastIter,         \* the branch the unit's last loop() iteration took
    ret,              \* what the unit's last driver call returned
    faults            \* faults the environment injected so far

sysvars == <<tof_dtu, udp, now, pc, wake, g_uwbState, g_sequenceNum, g_currentPeerIdx,
             g_stats, g_lastResult, result, peerID, twr, rxBuffer, rxDone,
             TX_TIME, RX_TIME, dwClock, resp, lastTx, lastIter, ret, faults>>
vars == <<ms, sysvars>>

RxStates == {"rng_awaitResp", "rng_awaitReport", "rsp_awaitPoll", "rsp_awaitFinal"}
RangeStates == {"rng_awaitResp", "rng_awaitReport", "rng_txFail", "rng_sim"}
NoResp == [initiatorID |-> "-", pollRxTime |-> 0, respTxTime |-> 0, finalRxTime |-> 0]
ZeroStats == [rangingAttempts |-> 0, rangingSuccesses |-> 0, rangingFailures |-> 0,
              udpSendSuccess |-> 0, udpSendFailures |-> 0]

\* the state before setup() has run on any unit
SystemIdle ==
    /\ now = 0
    /\ pc = [n \in Units |-> "setup"]
    /\ wake = [n \in Units |-> 0]
    /\ g_uwbState = [n \in Units |-> UWB_STATE_IDLE]
    /\ g_sequenceNum = [n \in Units |-> 0]
    /\ g_currentPeerIdx = [n \in Units |-> 0]
    /\ g_stats = [n \in Units |-> ZeroStats]
    /\ g_lastResult = [n \in Units |-> NoResult]
    /\ result = [n \in Units |-> UninitResult]
    /\ peerID = [n \in Units |-> "-"]
    /\ twr = [n \in Units |-> ZeroTWR]
    /\ rxBuffer = [n \in Units |-> NoFrame]
    /\ rxDone = [n \in Units |-> FALSE]
    /\ TX_TIME = [n \in Units |-> 0]
    /\ RX_TIME = [n \in Units |-> 0]
    /\ dwClock = 0
    /\ resp = [n \in Units |-> NoResp]
    /\ lastTx = [n \in Units |-> NoFrame]
    /\ lastIter = [n \in Units |-> "none"]
    /\ ret = [n \in Units |-> "none"]
    /\ tof_dtu = [n \in Units |-> 0]
    /\ udp = UdpIdle
    /\ faults = 0

Init ==
    /\ ms = U32(0)
    /\ SystemIdle

\* ------------------------------------------------------------------------
\* The radio channel: one frame at a time, heard by every unit whose
\* receiver is enabled (dw3000_rx waiting), by no one else
\* ------------------------------------------------------------------------
Listening(m) == pc[m] \in RxStates /\ ~rxDone[m]

\* dw3000_tx succeeded: the frame is on the air; the sender's receiver is off
Transmit(sender, frame) ==
    /\ dwClock' = dwClock + 2
    /\ TX_TIME' = [m \in Units |-> IF m = sender THEN dwClock + 1 ELSE TX_TIME[m]]
    /\ RX_TIME' = [m \in Units |->
                      IF m # sender /\ Listening(m) THEN dwClock + 2 ELSE RX_TIME[m]]
    /\ rxBuffer' = [m \in Units |->
                      IF m # sender /\ Listening(m) THEN frame ELSE rxBuffer[m]]
    /\ rxDone' = [m \in Units |->
                      IF m = sender THEN FALSE
                      ELSE IF Listening(m) THEN TRUE ELSE rxDone[m]]
    /\ lastTx' = [m \in Units |-> IF m = sender THEN frame ELSE lastTx[m]]

\* the unit n steps without putting a frame on the air
NoTransmit(n) ==
    /\ rxDone' = [rxDone EXCEPT ![n] = FALSE]
    /\ UNCHANGED <<dwClock, TX_TIME, RX_TIME, rxBuffer, lastTx>>

\* dw3000_tx(frame) by n: sent, or TXFRS never seen (a fault of the radio)
Tx(n, frame, txOk) ==
    /\ IF txOk THEN Transmit(n, frame) ELSE NoTransmit(n)
    /\ ~txOk => faults < MaxFaults
    /\ faults' = IF txOk THEN faults ELSE faults + 1

\* ------------------------------------------------------------------------
\* main.cpp: setup() and loop()
\* ------------------------------------------------------------------------
LoopReady(n) == pc[n] = "loop" /\ wake[n] <= now
CurrentPeer(n) == PEER_IDS[g_currentPeerIdx[n] + 1]
\* the round-robin index left where it is
NextPeerIdx_Stays(n) == g_currentPeerIdx[n]
NextPeerIdx(n) == (g_currentPeerIdx[n] + 1) % NUM_PEERS

\* setup(): runs uwb_init once; the first loop() iteration starts at most
\* MaxStartSteps*StartStepMs after boot
Setup(n) ==
    /\ pc[n] = "setup"
    /\ \E k \in 0..MaxStartSteps, hwOk \in BOOLEAN :
        /\ ~hwOk => faults < MaxFaults
        /\ g_uwbState' = [g_uwbState EXCEPT ![n] = uwb_init(@, hwOk)]
        /\ wake' = [wake EXCEPT ![n] = k * StartStepMs]
        /\ faults' = IF hwOk THEN faults ELSE faults + 1
    /\ pc' = [pc EXCEPT ![n] = "loop"]
    /\ UNCHANGED <<ms, tof_dtu, udp, now, g_sequenceNum, g_currentPeerIdx, g_stats, g_lastResult, result,
                   peerID, twr, rxBuffer, rxDone, TX_TIME, RX_TIME, dwClock,
                   resp, lastTx, lastIter, ret>>

\* loop(): wifi_is_connected() is false
LoopNoWifi(n) ==
    /\ LoopReady(n)
    /\ faults < MaxFaults
    /\ faults' = faults + 1
    /\ wake' = [wake EXCEPT ![n] = now + WIFI_WAIT_MS]
    /\ lastIter' = [lastIter EXCEPT ![n] = "nowifi"]
    /\ UNCHANGED <<ms, tof_dtu, udp, now, pc, g_uwbState, g_sequenceNum, g_currentPeerIdx, g_stats,
                   g_lastResult, result, peerID, twr, rxBuffer, rxDone, TX_TIME, RX_TIME,
                   dwClock, resp, lastTx, ret>>

\* loop(): uwb_is_ready() is false
LoopUwbNotReady(n) ==
    /\ LoopReady(n)
    /\ g_uwbState[n] # UWB_STATE_READY
    /\ \E hwOk \in BOOLEAN :
        g_uwbState' =
            IF U32Mod(U32(now), UWB_REINIT_PERIOD_MS) = 0
            THEN [g_uwbState EXCEPT ![n] = uwb_init(@, hwOk)]
            ELSE g_uwbState
    /\ wake' = [wake EXCEPT ![n] = now + WIFI_WAIT_MS]
    /\ lastIter' = [lastIter EXCEPT ![n] = "notready"]
    /\ UNCHANGED <<ms, tof_dtu, udp, now, pc, g_sequenceNum, g_currentPeerIdx, g_stats,
                   g_lastResult, result, peerID, twr, rxBuffer, rxDone, TX_TIME, RX_TIME,
                   dwClock, resp, lastTx, ret, faults>>

\* InOwnSlot without the test of the slot
InOwnSlot_AnySlot(n) ==
    /\ LoopReady(n)
    /\ g_uwbState[n] = UWB_STATE_READY
InOwnSlot(n) ==
    /\ LoopReady(n)
    /\ g_uwbState[n] = UWB_STATE_READY
    /\ isMyTimeSlot(n, U32(now))
OutOfSlot(n) ==
    /\ LoopReady(n)
    /\ g_uwbState[n] = UWB_STATE_READY
    /\ ~isMyTimeSlot(n, U32(now))

\* loop(): own slot, the round-robin index points at the unit itself
LoopSkipSelf(n) ==
    /\ InOwnSlot(n)
    /\ CurrentPeer(n) = n
    /\ g_currentPeerIdx' = [g_currentPeerIdx EXCEPT ![n] = NextPeerIdx(n)]
    /\ wake' = [wake EXCEPT ![n] = now + SKIP_SELF_DELAY_MS]
    /\ lastIter' = [lastIter EXCEPT ![n] = "skipself"]
    /\ UNCHANGED <<ms, tof_dtu, udp, now, pc, g_uwbState, g_sequenceNum, g_stats, g_lastResult, result,
                   peerID, twr, rxBuffer, rxDone, TX_TIME, RX_TIME, dwClock,
                   resp, lastTx, ret, faults>>

\* loop(): not the unit's slot
LoopIdleSlot(n) ==
    /\ OutOfSlot(n)
    /\ wake' = [wake EXCEPT ![n] = now + IDLE_SLOT_DELAY_MS]
    /\ lastIter' = [lastIter EXCEPT ![n] = "idle"]
    /\ UNCHANGED <<ms, tof_dtu, udp, now, pc, g_uwbState, g_sequenceNum, g_currentPeerIdx, g_stats,
                   g_lastResult, result, peerID, twr, rxBuffer, rxDone, TX_TIME, RX_TIME,
                   dwClock, resp, lastTx, ret, faults>>

\* RangeReturn without the g_uwbState = UWB_STATE_READY that precedes every
\* return of uwb_range
RangeReturn_StaysRanging(n, ok, newResult, udpOk) ==
    /\ g_uwbState' = g_uwbState
    /\ g_lastResult' = IF ok THEN [g_lastResult EXCEPT ![n] = newResult] ELSE g_lastResult
    /\ result' = IF ok THEN [result EXCEPT ![n] = newResult] ELSE result
    /\ g_stats' = [g_stats EXCEPT ![n] =
          IF ~ok THEN [@ EXCEPT !.rangingFailures = @ + 1]
          ELSE [@ EXCEPT !.rangingSuccesses = @ + 1]]
    /\ g_currentPeerIdx' = [g_currentPeerIdx EXCEPT ![n] = NextPeerIdx(n)]
    /\ wake' = [wake EXCEPT ![n] = now + RANGING_INTERVAL_MS]
    /\ pc' = [pc EXCEPT ![n] = "loop"]
    /\ ret' = [ret EXCEPT ![n] = IF ok THEN "range_ok" ELSE "range_fail"]
\* RangeReturn after an uwb_range that writes its result on the failing
\* paths as well
RangeReturn_AlwaysStores(n, ok, newResult, udpOk) ==
    /\ g_uwbState' = [g_uwbState EXCEPT ![n] = UWB_STATE_READY]
    /\ g_lastResult' = [g_lastResult EXCEPT ![n] = newResult]
    /\ result' = [result EXCEPT ![n] = newResult]
    /\ g_stats' = [g_stats EXCEPT ![n] =
          IF ~ok THEN [@ EXCEPT !.rangingFailures = @ + 1]
          ELSE [@ EXCEPT !.rangingSuccesses = @ + 1]]
    /\ g_currentPeerIdx' = [g_currentPeerIdx EXCEPT ![n] = NextPeerIdx(n)]
    /\ wake' = [wake EXCEPT ![n] = now + RANGING_INTERVAL_MS]
    /\ pc' = [pc EXCEPT ![n] = "loop"]
    /\ ret' = [ret EXCEPT ![n] = IF ok THEN "range_ok" ELSE "range_fail"]
\* RangeReturn with every successful result handed to udp_send_distance,
\* whatever its quality
RangeReturn_SendsAll(n, ok, newResult, udpOk) ==
    /\ g_uwbState' = [g_uwbState EXCEPT ![n] = UWB_STATE_READY]
    /\ g_lastResult' = IF ok THEN [g_lastResult EXCEPT ![n] = newResult] ELSE g_lastResult
    /\ result' = IF ok THEN [result EXCEPT ![n] = newResult] ELSE result
    /\ g_stats' = [g_stats EXCEPT ![n] =
          IF ~ok THEN [@ EXCEPT !.rangingFailures = @ + 1]
          ELSE [@ EXCEPT !.rangingSuccesses = @ + 1, !.udpSendSuccess = @ + 1]]
    /\ g_currentPeerIdx' = [g_currentPeerIdx EXCEPT ![n] = NextPeerIdx(n)]
    /\ wake' = [wake EXCEPT ![n] = now + RANGING_INTERVAL_MS]
    /\ pc' = [pc EXCEPT ![n] = "loop"]
    /\ ret' = [ret EXCEPT ![n] = IF ok THEN "range_ok" ELSE "range_fail"]
\* RangeReturn with a failed udp_send_distance repeated until it succeeds
RangeReturn_ResendsOnFailure(n, ok, newResult, udpOk) ==
    /\ g_uwbState' = [g_uwbState EXCEPT ![n] = UWB_STATE_READY]
    /\ g_lastResult' = IF ok THEN [g_lastResult EXCEPT ![n] = newResult] ELSE g_lastResult
    /\ result' = IF ok THEN [result EXCEPT ![n] = newResult] ELSE result
    /\ g_stats' = [g_stats EXCEPT ![n] =
          IF ~ok THEN [@ EXCEPT !.rangingFailures = @ + 1]
          ELSE IF newResult.quality < QUALITY_THRESHOLD
               THEN [@ EXCEPT !.rangingSuccesses = @ + 1]
          ELSE IF udpOk
               THEN [@ EXCEPT !.rangingSuccesses = @ + 1, !.udpSendSuccess = @ + 1]
               ELSE [@ EXCEPT !.rangingSuccesses = @ + 1, !.udpSendFailures = @ + 1,
                              !.udpSendSuccess = @ + 1]]
    /\ g_currentPeerIdx' = [g_currentPeerIdx EXCEPT ![n] = NextPeerIdx(n)]
    /\ wake' = [wake EXCEPT ![n] = now + RANGING_INTERVAL_MS]
    /\ pc' = [pc EXCEPT ![n] = "loop"]
    /\ ret' = [ret EXCEPT ![n] = IF ok THEN "range_ok" ELSE "range_fail"]
\* RangeReturn with a failed attempt left out of the counters
RangeReturn_ForgetsFailure(n, ok, newResult, udpOk) ==
    /\ g_uwbState' = [g_uwbState EXCEPT ![n] = UWB_STATE_READY]
    /\ g_lastResult' = IF ok THEN [g_lastResult EXCEPT ![n] = newResult] ELSE g_lastResult
    /\ result' = IF ok THEN [result EXCEPT ![n] = newResult] ELSE result
    /\ g_stats' = [g_stats EXCEPT ![n] =
          IF ~ok THEN @
          ELSE IF newResult.quality < QUALITY_THRESHOLD
               THEN [@ EXCEPT !.rangingSuccesses = @ + 1]
          ELSE IF udpOk
               THEN [@ EXCEPT !.rangingSuccesses = @ + 1, !.udpSendSuccess = @ + 1]
               ELSE [@ EXCEPT !.rangingSuccesses = @ + 1, !.udpSendFailures = @ + 1]]
    /\ g_currentPeerIdx' = [g_currentPeerIdx EXCEPT ![n] = NextPeerIdx(n)]
    /\ wake' = [wake EXCEPT ![n] = now + RANGING_INTERVAL_MS]
    /\ pc' = [pc EXCEPT ![n] = "loop"]
    /\ ret' = [ret EXCEPT ![n] = IF ok THEN "range_ok" ELSE "range_fail"]
\* RangeReturn followed by the short delay of the skip branch
RangeReturn_ShortPause(n, ok, newResult, udpOk) ==
    /\ g_uwbState' = [g_uwbState EXCEPT ![n] = UWB_STATE_READY]
    /\ g_lastResult' = IF ok THEN [g_lastResult EXCEPT ![n] = newResult] ELSE g_lastResult
    /\ result' = IF ok THEN [result EXCEPT ![n] = newResult] ELSE result
    /\ g_stats' = [g_stats EXCEPT ![n] =
          IF ~ok THEN [@ EXCEPT !.rangingFailures = @ + 1]
          ELSE IF newResult.quality < QUALITY_THRESHOLD
               THEN [@ EXCEPT !.rangingSuccesses = @ + 1]
          ELSE IF udpOk
               THEN [@ EXCEPT !.rangingSuccesses = @ + 1, !.udpSendSuccess = @ + 1]
               ELSE [@ EXCEPT !.rangingSuccesses = @ + 1, !.udpSendFailures = @ + 1]]
    /\ g_currentPeerIdx' = [g_currentPeerIdx EXCEPT ![n] = NextPeerIdx(n)]
    /\ wake' = [wake EXCEPT ![n] = now + SKIP_SELF_DELAY_MS]
    /\ pc' = [pc EXCEPT ![n] = "loop"]
    /\ ret' = [ret EXCEPT ![n] = IF ok THEN "range_ok" ELSE "range_fail"]
\* loop() after uwb_range(peerID, result) returned ok: the counters, the
\* telemetry hand-over, the next peer and delay(RANGING_INTERVAL_MS).
\* uwb_range itself leaves g_uwbState READY and, on success, stores the result
RangeReturn(n, ok, newResult, udpOk) ==
    /\ g_uwbState' = [g_uwbState EXCEPT ![n] = UWB_STATE_READY]
    /\ g_lastResult' = IF ok THEN [g_lastResult EXCEPT ![n] = newResult] ELSE g_lastResult
    /\ result' = IF ok THEN [result EXCEPT ![n] = newResult] ELSE result
    /\ g_stats' = [g_stats EXCEPT ![n] =
          IF ~ok THEN [@ EXCEPT !.rangingFailures = @ + 1]
          ELSE IF newResult.quality < QUALITY_THRESHOLD
               THEN [@ EXCEPT !.rangingSuccesses = @ + 1]
          ELSE IF udpOk
               THEN [@ EXCEPT !.rangingSuccesses = @ + 1, !.udpSendSuccess = @ + 1]
               ELSE [@ EXCEPT !.rangingSuccesses = @ + 1, !.udpSendFailures = @ + 1]]
    /\ g_currentPeerIdx' = [g_currentPeerIdx EXCEPT ![n] = NextPeerIdx(n)]
    /\ wake' = [wake EXCEPT ![n] = now + RANGING_INTERVAL_MS]
    /\ pc' = [pc EXCEPT ![n] = "loop"]
    /\ ret' = [ret EXCEPT ![n] = IF ok THEN "range_ok" ELSE "range_fail"]

\* ------------------------------------------------------------------------
\* dw3000_driver.h: uwb_range (initiator)
\* ------------------------------------------------------------------------
\* the message-type test each receive is followed by
ExpectType_Any(frame, msgType) == TRUE
ExpectType(frame, msgType) == frame.msgType = msgType

\* loop(): own slot, a peer is due: rangingAttempts++ and uwb_range up to its
\* first receive (step 1: POLL)
LoopRange(n) ==
    /\ InOwnSlot(n)
    /\ CurrentPeer(n) # n
    /\ \E txOk \in BOOLEAN :
        LET pollFrame == build_frame(n, g_sequenceNum[n], MSG_TYPE_POLL,
                                     CurrentPeer(n), ZeroTWR, 0)
        IN  /\ Tx(n, pollFrame, txOk)
            /\ twr' = [twr EXCEPT ![n] =
                  IF txOk THEN [ZeroTWR EXCEPT ![pollTxTime] = dwClock + 1]
                  ELSE ZeroTWR]
            /\ pc' = [pc EXCEPT ![n] =
                  IF txOk THEN "rng_awaitResp" ELSE "rng_txFail"]
            /\ wake' = [wake EXCEPT ![n] =
                  now + (IF txOk THEN RANGING_TIMEOUT_MS ELSE TX_TIMEOUT_MS)]
    /\ g_stats' = [g_stats EXCEPT ![n].rangingAttempts = @ + 1]
    /\ g_uwbState' = [g_uwbState EXCEPT ![n] = UWB_STATE_RANGING]
    /\ g_sequenceNum' = [g_sequenceNum EXCEPT ![n] = SequenceAfter(@)]
    /\ peerID' = [peerID EXCEPT ![n] = CurrentPeer(n)]
    /\ lastIter' = [lastIter EXCEPT ![n] = "range"]
    /\ result' = [result EXCEPT ![n] = UninitResult]
    /\ UNCHANGED <<ms, tof_dtu, udp, now, g_currentPeerIdx, g_lastResult, resp, ret>>

\* RangeTxFail with a retry inside uwb_range: the POLL is built and sent
\* again and the call goes on waiting for RESP
RangeTxFail_Retries(n) ==
    /\ pc[n] = "rng_txFail"
    /\ wake[n] <= now
    /\ Transmit(n, build_frame(n, g_sequenceNum[n], MSG_TYPE_POLL, peerID[n],
                               ZeroTWR, 0))
    /\ g_sequenceNum' = [g_sequenceNum EXCEPT ![n] = SequenceAfter(@)]
    /\ pc' = [pc EXCEPT ![n] = "rng_awaitResp"]
    /\ wake' = [wake EXCEPT ![n] = now + RANGING_TIMEOUT_MS]
    /\ UNCHANGED <<ms, tof_dtu, udp, now, g_uwbState, g_currentPeerIdx, g_stats, g_lastResult,
                   result, peerID, twr, resp, lastIter, ret, faults>>
\* dw3000_tx of POLL or FINAL timed out: uwb_range returns false
RangeTxFail(n) ==
    /\ pc[n] = "rng_txFail"
    /\ wake[n] <= now
    /\ RangeReturn(n, FALSE, NoResult, FALSE)
    /\ UNCHANGED <<ms, tof_dtu, udp, now, g_sequenceNum, peerID, twr, rxBuffer, rxDone, TX_TIME,
                   RX_TIME, dwClock, resp, lastTx, lastIter, faults>>

\* RangeRespTimeout with the return value of dw3000_rx ignored: the call
\* goes on to a result although nothing was received
RangeRespTimeout_ReportsSuccess(n) ==
    /\ pc[n] = "rng_awaitResp"
    /\ ~rxDone[n]
    /\ wake[n] <= now
    /\ RangeReturn(n, TRUE,
                   [success |-> TRUE, distance |-> 0, quality |-> Quality(0),
                    peerID |-> peerID[n]], TRUE)
    /\ UNCHANGED <<ms, tof_dtu, udp, now, g_sequenceNum, peerID, twr, rxBuffer, rxDone, TX_TIME,
                   RX_TIME, dwClock, resp, lastTx, lastIter, faults>>
\* step 2: dw3000_rx timed out waiting for RESP
RangeRespTimeout(n) ==
    /\ pc[n] = "rng_awaitResp"
    /\ ~rxDone[n]
    /\ wake[n] <= now
    /\ RangeReturn(n, FALSE, NoResult, FALSE)
    /\ UNCHANGED <<ms, tof_dtu, udp, now, g_sequenceNum, peerID, twr, rxBuffer, rxDone, TX_TIME,
                   RX_TIME, dwClock, resp, lastTx, lastIter, faults>>

\* step 2 and 3: a frame arrived while waiting for RESP; on a RESP the
\* responder's timestamps are taken from its payload and FINAL is sent
RangeRecvResp(n) ==
    /\ pc[n] = "rng_awaitResp"
    /\ rxDone[n]
    /\ IF ~ExpectType(rxBuffer[n], MSG_TYPE_RESP)
       THEN /\ twr' = [twr EXCEPT ![n][respRxTime] = RX_TIME[n]]
            /\ RangeReturn(n, FALSE, NoResult, FALSE)
            /\ NoTransmit(n)
            /\ UNCHANGED <<g_sequenceNum, faults>>
       ELSE \E g1 \in Uninit, g2 \in Uninit, txOk \in BOOLEAN :
            LET t1 == [twr[n] EXCEPT
                         ![respRxTime] = RX_TIME[n],
                         ![pollRxTime] = Resolve(TWRField(rxBuffer[n], pollRxTime), g1),
                         ![respTxTime] = Resolve(TWRField(rxBuffer[n], respTxTime), g2)]
                finalFrame == build_frame(n, g_sequenceNum[n], MSG_TYPE_FINAL,
                                          peerID[n], t1, TWR_PAYLOAD_BYTES)
            IN  /\ Tx(n, finalFrame, txOk)
                /\ twr' = [twr EXCEPT ![n] =
                      IF txOk THEN [t1 EXCEPT ![finalTxTime] = dwClock + 1] ELSE t1]
                /\ pc' = [pc EXCEPT ![n] =
                      IF txOk THEN "rng_awaitReport" ELSE "rng_txFail"]
                /\ wake' = [wake EXCEPT ![n] =
                      now + (IF txOk THEN RANGING_TIMEOUT_MS ELSE TX_TIMEOUT_MS)]
                /\ g_sequenceNum' = [g_sequenceNum EXCEPT ![n] = SequenceAfter(@)]
                /\ UNCHANGED <<g_uwbState, g_lastResult, result, g_stats, g_currentPeerIdx, ret>>
    /\ UNCHANGED <<ms, tof_dtu, udp, now, peerID, resp, lastIter>>

\* step 4: dw3000_rx timed out waiting for REPORT
RangeReportTimeout(n) ==
    /\ pc[n] = "rng_awaitReport"
    /\ ~rxDone[n]
    /\ wake[n] <= now
    /\ RangeReturn(n, FALSE, NoResult, FALSE)
    /\ UNCHANGED <<ms, tof_dtu, udp, now, g_sequenceNum, peerID, twr, rxBuffer, rxDone, TX_TIME,
                   RX_TIME, dwClock, resp, lastTx, lastIter, faults>>

\* step 4: a frame arrived while waiting for REPORT; on a REPORT finalRxTime
\* is read through the TWRPayload overlay, the distance and quality are
\* computed and uwb_range returns true. A zero denominator is an integer
\* division by zero: the unit panics or the quotient is arbitrary.
RangeRecvReport(n) ==
    /\ pc[n] = "rng_awaitReport"
    /\ rxDone[n]
    /\ NoTransmit(n)
    /\ IF ~ExpectType(rxBuffer[n], MSG_TYPE_REPORT)
       THEN /\ RangeReturn(n, FALSE, NoResult, FALSE)
            /\ UNCHANGED <<twr, faults>>
       ELSE \E g \in Uninit, gq \in Uninit, panic \in BOOLEAN, udpOk \in BOOLEAN :
            LET t2 == [twr[n] EXCEPT
                         ![finalRxTime] = Resolve(TWRField(rxBuffer[n], finalRxTime), g)]
                distance == IF TwrDenominator(t2) = 0
                            THEN TruncDiv(gq * UM_PER_TICK, 1000)
                            ELSE calculate_distance_from_twr(t2)
                newResult == [success |-> TRUE, distance |-> distance,
                           quality |-> Quality(distance), peerID |-> peerID[n]]
                \* udp_send_distance is called, and fails
                udpFails == ~panic /\ newResult.quality >= QUALITY_THRESHOLD /\ ~udpOk
            IN  /\ twr' = [twr EXCEPT ![n] = t2]
                /\ panic => TwrDenominator(t2) = 0
                /\ ~udpOk => udpFails /\ faults < MaxFaults
                /\ faults' = IF udpFails THEN faults + 1 ELSE faults
                /\ IF panic
                   THEN /\ pc' = [pc EXCEPT ![n] = "panic"]
                        /\ UNCHANGED <<g_uwbState, g_lastResult, result, g_stats,
                                       g_currentPeerIdx, wake, ret>>
                   ELSE RangeReturn(n, TRUE, newResult, udpOk)
    /\ UNCHANGED <<ms, tof_dtu, udp, now, g_sequenceNum, peerID, resp, lastIter>>

\* ------------------------------------------------------------------------
\* dw3000_driver.h: uwb_respond (responder)
\* ------------------------------------------------------------------------
\* uwb_respond returned to its caller, which goes on to its next iteration
RespondReturn(n, ok) ==
    /\ pc' = [pc EXCEPT ![n] = "loop"]
    /\ wake' = [wake EXCEPT ![n] = now]
    /\ ret' = [ret EXCEPT ![n] = IF ok THEN "resp_ok" ELSE "resp_fail"]

\* a caller outside the unit's slot calls uwb_respond(ListenMs), as the
\* function's contract asks for; the driver is READY, so it starts listening
RespondCall(n) ==
    /\ OutOfSlot(n)
    /\ pc' = [pc EXCEPT ![n] = "rsp_awaitPoll"]
    /\ wake' = [wake EXCEPT ![n] = now + ListenMs]
    /\ lastIter' = [lastIter EXCEPT ![n] = "respond"]
    /\ NoTransmit(n)
    /\ UNCHANGED <<ms, tof_dtu, udp, now, g_uwbState, g_sequenceNum, g_currentPeerIdx, g_stats,
                   g_lastResult, result, peerID, twr, resp, ret, faults>>

\* no POLL within timeout_ms
RespondPollTimeout(n) ==
    /\ pc[n] = "rsp_awaitPoll"
    /\ ~rxDone[n]
    /\ wake[n] <= now
    /\ RespondReturn(n, FALSE)
    /\ UNCHANGED <<ms, tof_dtu, udp, now, g_uwbState, g_sequenceNum, g_currentPeerIdx, g_stats,
                   g_lastResult, result, peerID, twr, rxBuffer, rxDone, TX_TIME, RX_TIME,
                   dwClock, resp, lastTx, lastIter, faults>>

\* addresses of transmitters outside the roster: 'X', and the 16-bit address
\* 0x0100 + 'X', which does not fit a char
FOREIGN_ID == "X"
FOREIGN_WIDE_ID == "X+256"
\* char initiatorID = (char)srcAddr: the low byte of the 16-bit source
\* address; the roster's addresses and 'X' are their own low byte
CharOf(srcAddr) == IF srcAddr = FOREIGN_WIDE_ID THEN FOREIGN_ID ELSE srcAddr
\* the destination test of the frame received while listening for POLL
PollForUs_Anyone(n, frame) == TRUE
PollForUs(n, frame) == frame.destAddr = n

\* a frame arrived while listening for POLL; a POLL for this unit is
\* answered with RESP
RespondRecvPoll(n) ==
    /\ pc[n] = "rsp_awaitPoll"
    /\ rxDone[n]
    /\ IF ~PollForUs(n, rxBuffer[n]) \/ ~ExpectType(rxBuffer[n], MSG_TYPE_POLL)
       THEN /\ RespondReturn(n, FALSE)
            /\ NoTransmit(n)
            /\ UNCHANGED <<resp, g_sequenceNum, faults>>
       ELSE \E txOk \in BOOLEAN :
            LET pollRx == RX_TIME[n]
                initiator == CharOf(rxBuffer[n].sourceAddr)
                respPayload == [UninitTWR EXCEPT ![pollRxTime] = pollRx]
                respFrame == build_frame(n, g_sequenceNum[n], MSG_TYPE_RESP,
                                         initiator, respPayload, TWR_PAYLOAD_BYTES)
            IN  /\ Tx(n, respFrame, txOk)
                /\ g_sequenceNum' = [g_sequenceNum EXCEPT ![n] = SequenceAfter(@)]
                /\ resp' = [resp EXCEPT ![n] =
                      [initiatorID |-> initiator, pollRxTime |-> pollRx,
                       respTxTime |-> IF txOk THEN dwClock + 1 ELSE 0,
                       finalRxTime |-> 0]]
                /\ pc' = [pc EXCEPT ![n] =
                      IF txOk THEN "rsp_awaitFinal" ELSE "rsp_txFail"]
                /\ wake' = [wake EXCEPT ![n] =
                      now + (IF txOk THEN RANGING_TIMEOUT_MS ELSE TX_TIMEOUT_MS)]
                /\ UNCHANGED ret
    /\ UNCHANGED <<ms, tof_dtu, udp, now, g_uwbState, g_currentPeerIdx, g_stats, g_lastResult, result,
                   peerID, twr, lastIter>>

\* dw3000_tx of RESP or REPORT timed out: uwb_respond returns false
RespondTxFail(n) ==
    /\ pc[n] = "rsp_txFail"
    /\ wake[n] <= now
    /\ RespondReturn(n, FALSE)
    /\ UNCHANGED <<ms, tof_dtu, udp, now, g_uwbState, g_sequenceNum, g_currentPeerIdx, g_stats,
                   g_lastResult, result, peerID, twr, rxBuffer, rxDone, TX_TIME, RX_TIME,
                   dwClock, resp, lastTx, lastIter, faults>>

\* a receive that starts over when its timeout ends
RespondFinalTimeout_Rearms(n) ==
    /\ pc[n] = "rsp_awaitFinal"
    /\ ~rxDone[n]
    /\ wake[n] <= now
    /\ wake' = [wake EXCEPT ![n] = now + RANGING_TIMEOUT_MS]
    /\ UNCHANGED <<ms, tof_dtu, udp, now, pc, g_uwbState, g_sequenceNum, g_currentPeerIdx, g_stats,
                   g_lastResult, result, peerID, twr, rxBuffer, rxDone, TX_TIME, RX_TIME,
                   dwClock, resp, lastTx, lastIter, ret, faults>>
\* no FINAL within RANGING_TIMEOUT_MS
RespondFinalTimeout(n) ==
    /\ pc[n] = "rsp_awaitFinal"
    /\ ~rxDone[n]
    /\ wake[n] <= now
    /\ RespondReturn(n, FALSE)
    /\ UNCHANGED <<ms, tof_dtu, udp, now, g_uwbState, g_sequenceNum, g_currentPeerIdx, g_stats,
                   g_lastResult, result, peerID, twr, rxBuffer, rxDone, TX_TIME, RX_TIME,
                   dwClock, resp, lastTx, lastIter, faults>>

\* a frame arrived while waiting for FINAL; on a FINAL the REPORT is sent
RespondRecvFinal(n) ==
    /\ pc[n] = "rsp_awaitFinal"
    /\ rxDone[n]
    /\ IF ~ExpectType(rxBuffer[n], MSG_TYPE_FINAL)
       THEN /\ RespondReturn(n, FALSE)
            /\ NoTransmit(n)
            /\ UNCHANGED <<resp, g_sequenceNum, faults>>
       ELSE \E txOk \in BOOLEAN :
            LET finalRx == RX_TIME[n]
                reportPayload == [UninitTWR EXCEPT ![finalRxTime] = finalRx]
                reportFrame == build_frame(n, g_sequenceNum[n], MSG_TYPE_REPORT,
                                           resp[n].initiatorID, reportPayload,
                                           TWR_PAYLOAD_BYTES)
            IN  /\ Tx(n, reportFrame, txOk)
                /\ g_sequenceNum' = [g_sequenceNum EXCEPT ![n] = SequenceAfter(@)]
                /\ resp' = [resp EXCEPT ![n].finalRxTime = finalRx]
                /\ IF txOk
                   THEN RespondReturn(n, TRUE)
                   ELSE /\ pc' = [pc EXCEPT ![n] = "rsp_txFail"]
                        /\ wake' = [wake EXCEPT ![n] = now + TX_TIMEOUT_MS]
                        /\ UNCHANGED ret
    /\ UNCHANGED <<ms, tof_dtu, udp, now, g_uwbState, g_currentPeerIdx, g_stats, g_lastResult, result,
                   peerID, twr, lastIter>>

\* ------------------------------------------------------------------------
\* The environment: other traffic on the channel, and time
\* ------------------------------------------------------------------------
\* a well-formed frame of a transmitter outside the roster reaches the
\* listening units; its payload is arbitrary
ForeignTx ==
    /\ faults < MaxFaults
    /\ \E m \in Units : Listening(m)
    /\ \E t \in MsgTypes, dst \in Units :
        Transmit(FOREIGN_ID,
                 [sequence |-> 0, destAddr |-> dst, sourceAddr |-> FOREIGN_ID,
                  msgType |-> t, payload |-> [k \in 1..PayloadWords |-> Indet],
                  len |-> FRAME_BYTES])
    /\ faults' = faults + 1
    /\ UNCHANGED <<ms, tof_dtu, udp, now, pc, wake, g_uwbState, g_sequenceNum, g_currentPeerIdx,
                   g_stats, g_lastResult, result, peerID, twr, resp, lastIter, ret>>

\* a unit that can take a step at the current instant
Runnable(n) ==
    \/ pc[n] = "setup"
    \/ pc[n] \in RxStates /\ rxDone[n]
    \/ pc[n] # "panic" /\ wake[n] <= now

\* millis() advances to the next instant at which a delay or timeout ends
AdvanceTo(limit) ==
    /\ \A n \in Units : ~Runnable(n)
    /\ \E n \in Units :
        /\ pc[n] # "panic"
        /\ wake[n] <= limit
        /\ \A m \in Units : pc[m] # "panic" => wake[n] <= wake[m]
        /\ now' = wake[n]
    /\ UNCHANGED <<ms, tof_dtu, udp, pc, wake, g_uwbState, g_sequenceNum, g_currentPeerIdx,
                   g_stats, g_lastResult, result, peerID, twr, rxBuffer, rxDone, TX_TIME,
                   RX_TIME, dwClock, resp, lastTx, lastIter, ret, faults>>
Advance == AdvanceTo(MaxClock)
ProtoAdvance == AdvanceTo(ProtoMaxClock)

\* ------------------------------------------------------------------------
\* Spec: the three units running setup() and loop() as written. loop() never
\* calls uwb_respond, so the only frames these units put on the air are
\* POLLs (OnlyPollsOnAir) and uwb_range never gets past its first receive:
\* its steps after a RESP take part in SpecProto only.
\* ------------------------------------------------------------------------
OnlyPollsOnAir ==
    \A n \in Units :
        /\ lastTx[n].msgType \in {"NONE", MSG_TYPE_POLL}
        /\ rxBuffer[n].msgType \in {"NONE", MSG_TYPE_POLL}
        /\ pc[n] # "rng_awaitReport"
Next ==
    \/ \E n \in Units : Setup(n)
    \/ \E n \in Units : LoopNoWifi(n)
    \/ \E n \in Units : LoopUwbNotReady(n)
    \/ \E n \in Units : LoopSkipSelf(n)
    \/ \E n \in Units : LoopIdleSlot(n)
    \/ \E n \in Units : LoopRange(n)
    \/ \E n \in Units : RangeTxFail(n)
    \/ \E n \in Units : RangeRespTimeout(n)
    \/ \E n \in Units : RangeRecvResp(n)
    \/ Advance
Spec == Init /\ [][Next]_vars
\* the units and the clock keep running
FairSpec == Spec /\ WF_vars(Next)

\* ------------------------------------------------------------------------
\* SpecProto: the driver's two entry points under a caller that ranges in
\* the unit's slot, as loop() does, and calls uwb_respond(ListenMs) outside
\* it, with other traffic on the channel. It starts where setup() has
\* succeeded on every unit at the same instant and Wi-Fi stays connected.
\* ------------------------------------------------------------------------
\* loop() entered by all units at once, f faults spent and seq frames
\* built by each unit before
ProtoStart(f, seq) ==
    /\ ms = U32(0)
    /\ now = 0
    /\ pc = [n \in Units |-> "loop"]
    /\ wake = [n \in Units |-> 0]
    /\ g_uwbState = [n \in Units |-> uwb_init(UWB_STATE_IDLE, TRUE)]
    /\ g_sequenceNum = [n \in Units |-> seq % 256]
    /\ g_currentPeerIdx = [n \in Units |-> 0]
    /\ g_stats = [n \in Units |-> ZeroStats]
    /\ g_lastResult = [n \in Units |-> NoResult]
    /\ result = [n \in Units |-> UninitResult]
    /\ peerID = [n \in Units |-> "-"]
    /\ twr = [n \in Units |-> ZeroTWR]
    /\ rxBuffer = [n \in Units |-> NoFrame]
    /\ rxDone = [n \in Units |-> FALSE]
    /\ TX_TIME = [n \in Units |-> 0]
    /\ RX_TIME = [n \in Units |-> 0]
    /\ dwClock = 0
    /\ resp = [n \in Units |-> NoResp]
    /\ lastTx = [n \in Units |-> NoFrame]
    /\ lastIter = [n \in Units |-> "none"]
    /\ ret = [n \in Units |-> "none"]
    /\ tof_dtu = [n \in Units |-> 0]
    /\ udp = UdpIdle
    /\ faults = f
ProtoInit == ProtoStart(0, 0)
ProtoNext ==
    \/ \E n \in Units : LoopSkipSelf(n)
    \/ \E n \in Units : LoopRange(n)
    \/ \E n \in Units : RangeTxFail(n)
    \/ \E n \in Units : RangeRespTimeout(n)
    \/ \E n \in Units : RangeRecvResp(n)
    \/ \E n \in Units : RangeReportTimeout(n)
    \/ \E n \in Units : RangeRecvReport(n)
    \/ \E n \in Units : RespondCall(n)
    \/ \E n \in Units : RespondPollTimeout(n)
    \/ \E n \in Units : RespondRecvPoll(n)
    \/ \E n \in Units : RespondTxFail(n)
    \/ \E n \in Units : RespondFinalTimeout(n)
    \/ \E n \in Units : RespondRecvFinal(n)
    \/ ForeignTx
    \/ ProtoAdvance
SpecProto == ProtoInit /\ [][ProtoNext]_vars

\* ------------------------------------------------------------------------
\* SpecSlot: the scheduler as a function of the clock value
\* ------------------------------------------------------------------------
\* the clock values studied: SlotWindow ms after boot and before the wrap
InWindow(m) ==
    \/ m[1] = 0 /\ m[2] <= SlotWindow
    \/ m[1] = Limb - 1 /\ m[2] >= Limb - SlotWindow
SlotInit ==
    /\ ms \in {U32(0), U32Sub(U32(0), SlotWindow)}
    /\ SystemIdle
SlotTick ==
    /\ InWindow(U32Add(ms, 1))
    /\ ms' = U32Add(ms, 1)
    /\ UNCHANGED sysvars
SlotCycle ==
    /\ InWindow(U32Add(ms, CYCLE_DURATION_MS))
    /\ ms' = U32Add(ms, CYCLE_DURATION_MS)
    /\ UNCHANGED sysvars
SlotNext == SlotTick \/ SlotCycle
SpecSlot == SlotInit /\ [][SlotNext]_vars

\* ------------------------------------------------------------------------
\* Properties of the scheduler (SpecSlot)
\* ------------------------------------------------------------------------
SlotOwners(m) == {u \in Units : isMyTimeSlot(u, m)}

\* C1: at every value of the shared clock, isMyTimeSlot is true for exactly
\* one of the three units A, B, C.
C1_ExactlyOneSlotOwner == Cardinality(SlotOwners(ms)) = 1
\* the first millisecond of B's slot, one past the last of A's
C1_AtSlotBoundary ==
    /\ U32Mod(ms, CYCLE_DURATION_MS) = TIME_SLOT_DURATION_MS
    /\ SlotOwners(ms) = {"B"}
    /\ SlotOwners(U32Sub(ms, 1)) = {"A"}

\* C2: isMyTimeSlot at t equals isMyTimeSlot at t + 600, the sum taken in
\* the 32-bit counter's own arithmetic, for every unit and every t.
C2_SlotRecursEveryCycle ==
    \A u \in Units :
        isMyTimeSlot(u, ms) = isMyTimeSlot(u, U32Add(ms, CYCLE_DURATION_MS))

\* ------------------------------------------------------------------------
\* Properties of the running system (Spec, FairSpec)
\* ------------------------------------------------------------------------
\* the units inside uwb_range: between its call in loop() and its return
Initiators == {n \in Units : pc[n] \in RangeStates}

\* C3: at no instant are two different units both inside an initiator
\* exchange.
C3_AtMostOneInitiator == Cardinality(Initiators) <= 1

\* the unit n ran one loop() iteration in this step with Wi-Fi connected
LoopIteration(n) ==
    /\ LoopReady(n)
    /\ wake'[n] # wake[n] \/ pc'[n] # pc[n]
    /\ lastIter'[n] # "nowifi"

\* C4: every loop() iteration that finds the unit ready and outside its own
\* slot runs the responder: the unit listens for a POLL.
C4_OutOfSlotRunsResponder ==
    [][\A n \in Units :
          (OutOfSlot(n) /\ LoopIteration(n)) => pc'[n] = "rsp_awaitPoll"]_vars

RespExchanged(n, m) ==
    /\ pc[n] = "rng_awaitReport" /\ ~rxDone[n]
    /\ peerID[n] = m
    /\ rxBuffer[n].msgType = MSG_TYPE_RESP
    /\ rxBuffer[n].sourceAddr = m /\ rxBuffer[n].destAddr = n
    /\ pc[m] = "rsp_awaitFinal"
    /\ resp[m].initiatorID = n

\* C6: the pollRx and respTx the initiator takes from the RESP payload are
\* the responder's own POLL-receive and RESP-transmit timestamps.
C6_RespCarriesResponderTimes ==
    \A n \in Units : \A m \in Units \ {n} :
        RespExchanged(n, m) =>
            /\ twr[n][pollRxTime] = resp[m].pollRxTime
            /\ twr[n][respTxTime] = resp[m].respTxTime

\* uwb_range(m) has returned true on n after consuming the REPORT that m
\* sent to it at the end of the exchange m answered
ReportExchanged(n, m) ==
    /\ pc[n] = "loop" /\ ret[n] = "range_ok"
    /\ peerID[n] = m
    /\ rxBuffer[n].msgType = MSG_TYPE_REPORT
    /\ rxBuffer[n].sourceAddr = m /\ rxBuffer[n].destAddr = n
    /\ lastTx[m] = rxBuffer[n]
    /\ resp[m].initiatorID = n

\* C7: the REPORT carries the responder's FINAL-receive timestamp in its
\* payload, and the finalRx of the initiator's timestamp set equals it.
C7_ReportCarriesFinalRx ==
    \A n \in Units : \A m \in Units \ {n} :
        ReportExchanged(n, m) =>
            /\ \E k \in 1..PayloadWords : rxBuffer[n].payload[k] = resp[m].finalRxTime
            /\ twr[n][finalRxTime] = resp[m].finalRxTime

\* the message type each receive of the two state machines waits for, and
\* the type that answers it
ExpectedType(p) ==
    CASE p = "rsp_awaitPoll" -> MSG_TYPE_POLL
      [] p = "rng_awaitResp" -> MSG_TYPE_RESP
      [] p = "rsp_awaitFinal" -> MSG_TYPE_FINAL
      [] p = "rng_awaitReport" -> MSG_TYPE_REPORT
AnswerType(t) ==
    CASE t = MSG_TYPE_POLL -> MSG_TYPE_RESP
      [] t = MSG_TYPE_RESP -> MSG_TYPE_FINAL
      [] t = MSG_TYPE_FINAL -> MSG_TYPE_REPORT
      [] OTHER -> "NONE"
\* the unit n takes the frame dw3000_rx returned to it in this step
Consumes(n) == pc[n] \in RxStates /\ rxDone[n] /\ ~rxDone'[n]
\* a frame goes on the air in this step
FrameSent == dwClock' # dwClock

\* C8: a receiver goes on only on the frame type its state expects, what it
\* then transmits is the next type of POLL, RESP, FINAL, REPORT, and a frame
\* of any other type ends its attempt with no transmission.
C8_StrictFrameOrder ==
    [][\A n \in Units : Consumes(n) =>
          IF rxBuffer[n].msgType = ExpectedType(pc[n])
          THEN FrameSent =>
                  /\ lastTx'[n] # lastTx[n]
                  /\ lastTx'[n].msgType = AnswerType(rxBuffer[n].msgType)
          ELSE /\ pc'[n] = "loop"
               /\ ret'[n] \in {"range_fail", "resp_fail"}
               /\ ~FrameSent
               /\ lastTx' = lastTx
               /\ g_sequenceNum' = g_sequenceNum]_vars
\* an initiator that got a frame other than RESP at its first receive has
\* returned false: respRxTime was latched, no FINAL was sent
C8_InitiatorRejectedNonResp ==
    \E n \in Units :
        /\ pc[n] = "loop" /\ ret[n] = "range_fail"
        /\ twr[n][respRxTime] > 0 /\ twr[n][finalTxTime] = 0
        /\ rxBuffer[n].msgType \in MsgTypes \ {MSG_TYPE_RESP}
        /\ lastTx[n].msgType = MSG_TYPE_POLL

\* C9: uwb_range(peer) returns true only if the frames it consumed were
\* sent by that peer to this unit.
C9_SuccessOnlyFromPeer ==
    \A n \in Units :
        /\ (pc[n] = "rng_awaitReport" /\ ~rxDone[n]) =>
              (rxBuffer[n].sourceAddr = peerID[n] /\ rxBuffer[n].destAddr = n)
        /\ (pc[n] = "loop" /\ ret[n] = "range_ok") =>
              (rxBuffer[n].sourceAddr = peerID[n] /\ rxBuffer[n].destAddr = n)

\* C10: a responder that receives a POLL whose destination is not its own
\* UNIT_ID returns false: no frame is built or sent, and g_sequenceNum,
\* g_uwbState and the responder's record are as before.
C10_PollForAnotherUnit ==
    [][\A n \in Units :
          (/\ pc[n] = "rsp_awaitPoll"
           /\ Consumes(n)
           /\ rxBuffer[n].msgType = MSG_TYPE_POLL
           /\ rxBuffer[n].destAddr # n) =>
              /\ pc'[n] = "loop" /\ ret'[n] = "resp_fail"
              /\ ~FrameSent
              /\ lastTx' = lastTx
              /\ g_sequenceNum'[n] = g_sequenceNum[n]
              /\ g_uwbState'[n] = g_uwbState[n]
              /\ resp'[n] = resp[n]]_vars
\* a unit that never transmitted has returned false from uwb_respond on
\* another unit's POLL to a third
C10_BystanderHeardPoll ==
    \E n \in Units :
        /\ pc[n] = "loop" /\ ret[n] = "resp_fail"
        /\ rxBuffer[n].msgType = MSG_TYPE_POLL
        /\ rxBuffer[n].destAddr \in Units \ {n}
        /\ rxBuffer[n].sourceAddr \in Units \ {n}
        /\ lastTx[n] = NoFrame
        /\ g_sequenceNum[n] = 0

\* C11: a frame taken while waiting for FINAL whose destination is not this
\* unit, or whose source is not the initiator of the accepted POLL, is
\* ignored: no REPORT (no frame at all) is sent in answer to it.
C11_FinalAddressValidated ==
    [][\A n \in Units :
          (/\ pc[n] = "rsp_awaitFinal"
           /\ Consumes(n)
           /\ \/ rxBuffer[n].destAddr # n
              \/ rxBuffer[n].sourceAddr # resp[n].initiatorID) =>
              (~FrameSent /\ lastTx' = lastTx)]_vars
\* a responder has returned true from an exchange whose FINAL came from a
\* transmitter other than the initiator it had answered
C11_ReportAfterForeignFinal ==
    \E n \in Units :
        /\ pc[n] = "loop" /\ ret[n] = "resp_ok"
        /\ lastTx[n].msgType = MSG_TYPE_REPORT
        /\ rxBuffer[n].msgType = MSG_TYPE_FINAL
        /\ rxBuffer[n].sourceAddr # resp[n].initiatorID

\* the unit n leaves its wait for RESP in this step with nothing received
RespWaitExpires(n) == pc[n] = "rng_awaitResp" /\ ~rxDone[n] /\ pc'[n] # pc[n]

\* C12: an initiator that gets no RESP within RANGING_TIMEOUT_MS of its POLL
\* returns false from uwb_range: it sends no FINAL, computes no distance and
\* produces no RangingResult.
C12_RespTimeoutFails ==
    [][\A n \in Units : RespWaitExpires(n) =>
          /\ now = wake[n]
          /\ pc'[n] = "loop" /\ ret'[n] = "range_fail"
          /\ ~FrameSent /\ lastTx' = lastTx
          /\ g_sequenceNum' = g_sequenceNum
          /\ twr' = twr
          /\ g_lastResult' = g_lastResult
          /\ g_stats'[n].rangingSuccesses = g_stats[n].rangingSuccesses
          /\ g_stats'[n].rangingFailures = g_stats[n].rangingFailures + 1]_vars
\* an initiator has just returned false RANGING_TIMEOUT_MS after a POLL that
\* nothing answered
C12_ReturnedAfterRespTimeout ==
    \E n \in Units :
        /\ pc[n] = "loop" /\ ret[n] = "range_fail"
        /\ lastTx[n].msgType = MSG_TYPE_POLL
        /\ twr[n][pollTxTime] > 0 /\ twr[n][respRxTime] = 0
        /\ wake[n] = now + RANGING_INTERVAL_MS
        /\ g_stats[n].rangingFailures = 1
        /\ ~g_lastResult[n].success

\* ------------------------------------------------------------------------
\* SpecEst: the last step of uwb_range as a function of the timestamps. One
\* unit stands at its second receive with a REPORT in hand; the five
\* timestamps it has collected so far are drawn from 0..MaxTick.
\* ------------------------------------------------------------------------
EST_UNIT == PEER_IDS[1]
EST_PEER == PEER_IDS[2]
EstInputs == {t \in [TWRFields -> 0..MaxTick] : t[finalRxTime] = 0}
EstInit ==
    /\ ms = U32(0)
    /\ now = 0
    /\ pc = [n \in Units |-> IF n = EST_UNIT THEN "rng_awaitReport" ELSE "loop"]
    /\ wake = [n \in Units |-> RANGING_TIMEOUT_MS]
    /\ g_uwbState = [n \in Units |->
          IF n = EST_UNIT THEN UWB_STATE_RANGING ELSE UWB_STATE_READY]
    /\ g_sequenceNum = [n \in Units |-> 0]
    /\ g_currentPeerIdx = [n \in Units |-> 1]
    /\ g_stats = [n \in Units |->
          IF n = EST_UNIT THEN [ZeroStats EXCEPT !.rangingAttempts = 1]
          ELSE ZeroStats]
    /\ g_lastResult = [n \in Units |-> NoResult]
    /\ result = [n \in Units |-> UninitResult]
    /\ peerID = [n \in Units |-> IF n = EST_UNIT THEN EST_PEER ELSE "-"]
    /\ \E t \in EstInputs :
          twr = [n \in Units |-> IF n = EST_UNIT THEN t ELSE ZeroTWR]
    /\ rxBuffer = [n \in Units |->
          IF n = EST_UNIT
          THEN build_frame(EST_PEER, 0, MSG_TYPE_REPORT, EST_UNIT, UninitTWR,
                           TWR_PAYLOAD_BYTES)
          ELSE NoFrame]
    /\ rxDone = [n \in Units |-> n = EST_UNIT]
    /\ TX_TIME = [n \in Units |-> 0]
    /\ RX_TIME = [n \in Units |-> 0]
    /\ dwClock = 0
    /\ resp = [n \in Units |-> NoResp]
    /\ lastTx = [n \in Units |-> NoFrame]
    /\ lastIter = [n \in Units |-> IF n = EST_UNIT THEN "range" ELSE "none"]
    /\ ret = [n \in Units |-> "none"]
    /\ tof_dtu = [n \in Units |-> 0]
    /\ udp = UdpIdle
    /\ faults = 0
EstNext == \E n \in Units : RangeRecvReport(n)
SpecEst == EstInit /\ [][EstNext]_vars

\* the unit n has been through the estimator: its uwb_range call is over
EstimatorRan(n) == peerID[n] # "-" /\ pc[n] \in {"loop", "panic"}

\* C13: for a timestamp set with Ra+Rb+Da+Db = 0 the estimator fails and
\* produces no distance: uwb_range returns false and no RangingResult is
\* built.
C13_ZeroDenominatorFails ==
    \A n \in Units :
        (EstimatorRan(n) /\ TwrDenominator(twr[n]) = 0) =>
            /\ pc[n] = "loop"
            /\ ret[n] = "range_fail"
            /\ ~g_lastResult[n].success
\* uwb_range has returned true with a result built from a set whose
\* denominator is zero
C13_ResultFromZeroDenominator ==
    \E n \in Units :
        /\ TwrDenominator(twr[n]) = 0
        /\ ret[n] = "range_ok"
        /\ g_lastResult[n].success
        /\ g_stats[n].rangingSuccesses = 1

\* the six timestamps advance within the exchange, on the initiator's clock
\* and on the responder's
TimestampsInOrder(t) ==
    /\ t[pollTxTime] <= t[respRxTime] /\ t[respRxTime] <= t[finalTxTime]
    /\ t[pollRxTime] <= t[respTxTime] /\ t[respTxTime] <= t[finalRxTime]

\* C14: an exchange whose timestamps are out of order is rejected before
\* the estimator runs: uwb_range returns true only on an ordered set.
C14_OutOfOrderRejected ==
    \A n \in Units :
        (pc[n] = "loop" /\ ret[n] = "range_ok") => TimestampsInOrder(twr[n])
\* uwb_range has returned true, fault-free, with respTx earlier than pollRx
C14_SuccessOutOfOrder ==
    \E n \in Units :
        /\ pc[n] = "loop" /\ ret[n] = "range_ok"
        /\ g_lastResult[n].success
        /\ twr[n][respTxTime] < twr[n][pollRxTime]
        /\ faults = 0


\* ------------------------------------------------------------------------
\* SpecSeq: the exchanges of SpecProto picked up after each unit has built
\* 0 or 256 - SeqLead .. 255 frames, so that g_sequenceNum passes 255; one
\* fault is still to come.
\* ------------------------------------------------------------------------
SeqInit ==
    \E seq \in {0} \cup ((256 - SeqLead)..255) : ProtoStart(MaxFaults - 1, seq)
SpecSeq == SeqInit /\ [][ProtoNext]_vars

\* the unit n puts a frame on the air in this step
Sends(n) == TX_TIME'[n] # TX_TIME[n]

\* C15: every frame a unit builds carries the sequence number that follows
\* the one of the frame it built before, modulo 256: g_sequenceNum stays a
\* byte, moves only by one step modulo 256, and a frame that goes on the
\* air carries the value g_sequenceNum had, which the step then advances.
C15_SequenceIncrementsMod256 ==
    [][\A n \in Units :
          /\ g_sequenceNum'[n] \in 0..255
          /\ g_sequenceNum'[n] # g_sequenceNum[n] =>
                g_sequenceNum'[n] = (g_sequenceNum[n] + 1) % 256
          /\ Sends(n) =>
                /\ lastTx'[n].sequence = g_sequenceNum[n]
                /\ g_sequenceNum'[n] = (lastTx'[n].sequence + 1) % 256]_vars
\* a completed exchange in which the initiator's FINAL and the responder's
\* REPORT were both frame 255 and both counters are back at 0
C15_SequenceWrapped ==
    \E n, m \in Units :
        /\ n # m
        /\ lastTx[n].sequence = 255 /\ lastTx[n].msgType = MSG_TYPE_FINAL
        /\ lastTx[m].sequence = 255 /\ lastTx[m].msgType = MSG_TYPE_REPORT
        /\ g_sequenceNum[n] = 0 /\ g_sequenceNum[m] = 0
        /\ ret[n] = "range_ok"


\* the call of uwb_range by n is under way: it waits for a frame or for
\* dw3000_tx to give up, or it has trapped in the estimator and never returns
InRange(n) == pc[n] \in RangeStates \cup {"panic"}

\* C16: a unit has at most one exchange of its own under way: uwb_range
\* starts only with g_uwbState READY (a unit that is not READY sends
\* nothing), g_uwbState is RANGING exactly while the call is under way, and
\* every return of the call leaves it READY.
C16_OneExchangePerNode ==
    [][\A n \in Units :
          /\ InRange(n) <=> (g_uwbState[n] = UWB_STATE_RANGING)
          /\ InRange(n)' <=> (g_uwbState'[n] = UWB_STATE_RANGING)
          /\ (~InRange(n) /\ InRange(n)') =>
                g_uwbState[n] = UWB_STATE_READY
          /\ (g_uwbState[n] \notin {UWB_STATE_READY, UWB_STATE_RANGING}) =>
                ~Sends(n)
          /\ (InRange(n) /\ ~InRange(n)') =>
                /\ pc'[n] = "loop"
                /\ ret'[n] \in {"range_ok", "range_fail"}
                /\ g_uwbState'[n] = UWB_STATE_READY]_vars
\* one unit's call has returned true and left it READY; later another unit
\* is RANGING
C16_ReadyAfterReturn ==
    \E n, m \in Units :
        /\ pc[n] = "loop" /\ ret[n] = "range_ok"
        /\ g_uwbState[n] = UWB_STATE_READY
        /\ pc[m] \in RangeStates
        /\ g_uwbState[m] = UWB_STATE_RANGING


\* the call of uwb_range by n returns in this step
RangeReturns(n, value) ==
    /\ pc[n] \in RangeStates /\ pc'[n] = "loop"
    /\ ret'[n] = value
\* the RangingResult r was never written since its declaration
Unwritten(r) == r.quality = Indet
\* the RangingResults a and b hold the same
SameResult(a, b) ==
    IF Unwritten(a) \/ Unwritten(b) THEN Unwritten(a) /\ Unwritten(b) ELSE a = b

\* C17: only a successful exchange produces a RangingResult: a call of
\* uwb_range that returns false leaves the caller's result and g_lastResult
\* as they were, g_lastResult changes only in a call that returns true, and
\* what that call stores is the successful result it hands to its caller.
C17_ResultOnlyOnSuccess ==
    [][\A n \in Units :
          /\ RangeReturns(n, "range_fail") =>
                /\ SameResult(result'[n], result[n])
                /\ g_lastResult'[n] = g_lastResult[n]
          /\ g_lastResult'[n] # g_lastResult[n] => RangeReturns(n, "range_ok")
          /\ RangeReturns(n, "range_ok") =>
                /\ ~Unwritten(result'[n])
                /\ result'[n].success /\ result'[n].peerID = peerID[n]
                /\ g_lastResult'[n] = result'[n]]_vars
\* one unit's call returned false and left its result unwritten and its
\* g_lastResult empty, another's returned true with the result stored
C17_FailedAndSucceeded ==
    \E n, m \in Units :
        /\ pc[n] = "loop" /\ ret[n] = "range_fail"
        /\ Unwritten(result[n]) /\ g_lastResult[n] = NoResult
        /\ g_stats[n].rangingFailures = 1
        /\ pc[m] = "loop" /\ ret[m] = "range_ok"
        /\ ~Unwritten(result[m]) /\ g_lastResult[m] = result[m]
        /\ g_lastResult[m].success


\* calls of udp_send_distance the unit has made: each one counts either as
\* a udpSendSuccess or as a udpSendFailures
UdpHandOvers(stats) == stats.udpSendSuccess + stats.udpSendFailures

\* C18: a result is handed to udp_send_distance exactly when uwb_range
\* returned true and result.quality is at least QUALITY_THRESHOLD: the
\* hand-over happens in the iteration of that call, once, and in no other
\* step, so a result below the threshold is never sent.
C18_TelemetryOnlyAboveThreshold ==
    [][\A n \in Units :
          /\ UdpHandOvers(g_stats'[n]) \in
                {UdpHandOvers(g_stats[n]), UdpHandOvers(g_stats[n]) + 1}
          /\ (UdpHandOvers(g_stats'[n]) = UdpHandOvers(g_stats[n]) + 1) <=>
                /\ RangeReturns(n, "range_ok")
                /\ result'[n].quality >= QUALITY_THRESHOLD]_vars
\* a successful result of quality 0.3 was counted and not handed over,
\* while another unit's result of quality 0.9 was
C18_LowQualityKept ==
    \E n, m \in Units :
        /\ pc[n] = "loop" /\ ret[n] = "range_ok"
        /\ result[n].quality = 30
        /\ g_stats[n].rangingSuccesses = 1
        /\ UdpHandOvers(g_stats[n]) = 0
        /\ pc[m] = "loop" /\ ret[m] = "range_ok"
        /\ result[m].quality = 90
        /\ UdpHandOvers(g_stats[m]) = 1


\* loop() calls uwb_range for the unit n in this step
RangeCalled(n) == pc[n] = "loop" /\ pc'[n] \in RangeStates

\* C19: a failed attempt is retried on the same peer while the peer's
\* retry budget of RANGING_MAX_RETRIES lasts: the call of uwb_range that
\* follows one of the unit's first RANGING_MAX_RETRIES failures ranges to
\* the peer that failed.
C19_FailedPeerRetried ==
    [][\A n \in Units :
          (/\ RangeCalled(n)
           /\ ret[n] = "range_fail"
           /\ g_stats[n].rangingFailures <= RANGING_MAX_RETRIES) =>
                peerID'[n] = peerID[n]]_vars
\* after its first failed attempt a unit is ranging to another peer
C19_MovedOnAfterFailure ==
    \E n \in Units :
        /\ pc[n] \in RangeStates
        /\ g_stats[n].rangingAttempts = 2
        /\ g_stats[n].rangingFailures = 1
        /\ g_stats[n].rangingSuccesses = 0
        /\ peerID[n] = CurrentPeer(n)
        /\ lastTx[n].destAddr = peerID[n]


\* the last call of uwb_range by n returned false before it built a FINAL:
\* no POLL left the unit, or the POLL is the last frame it built
FailedBeforeFinal(n) ==
    /\ pc[n] = "loop" /\ ret[n] = "range_fail"
    /\ \/ twr[n][pollTxTime] = 0
       \/ /\ lastTx[n].msgType = MSG_TYPE_POLL
          /\ g_sequenceNum[n] = SequenceAfter(lastTx[n].sequence)
\* the return that call took, read off the timestamps it had collected:
\* none (dw3000_tx of the POLL failed), pollTxTime only (dw3000_rx timed
\* out), respRxTime as well (the frame received was not a RESP)
FailureCause(n) ==
    IF twr[n][pollTxTime] = 0 THEN "TransmitFailure"
    ELSE IF twr[n][respRxTime] = 0 THEN "ResponseTimeout"
    ELSE "ProtocolViolation"
\* what the call hands to loop(): its return value and the result, which
\* is written or not
RangeOutcome(n) == <<ret[n] = "range_ok", Unwritten(result[n])>>

\* C20: a failed exchange surfaces to loop() as an outcome that tells its
\* cause: two calls of uwb_range that failed for different causes (transmit
\* failure, response timeout, protocol violation) hand over different
\* outcomes.
C20_FailureCausesDistinguished ==
    \A n, m \in Units :
        (/\ FailedBeforeFinal(n) /\ FailedBeforeFinal(m)
         /\ FailureCause(n) # FailureCause(m)) =>
            RangeOutcome(n) # RangeOutcome(m)
\* three calls failed, one for each cause, and each handed over false and
\* an unwritten result
C20_ThreeCausesOneOutcome ==
    \E n, m, k \in Units :
        /\ FailedBeforeFinal(n) /\ FailureCause(n) = "TransmitFailure"
        /\ FailedBeforeFinal(m) /\ FailureCause(m) = "ResponseTimeout"
        /\ FailedBeforeFinal(k) /\ FailureCause(k) = "ProtocolViolation"
        /\ rxBuffer[k].msgType # MSG_TYPE_RESP
        /\ \A u \in {n, m, k} : RangeOutcome(u) = <<FALSE, TRUE>>


\* C21: uwb_range never retries: a POLL leaves the unit only as the call
\* starts and a FINAL only as the call takes its RESP, the call never goes
\* back to an earlier step, and after a transmit failure of either frame
\* it returns false having sent and built nothing more.
C21_NoRetryInsideRange ==
    [][\A n \in Units :
          /\ (Sends(n) /\ lastTx'[n].msgType = MSG_TYPE_POLL) => RangeCalled(n)
          /\ (Sends(n) /\ lastTx'[n].msgType = MSG_TYPE_FINAL) =>
                pc[n] = "rng_awaitResp" /\ pc'[n] = "rng_awaitReport"
          /\ pc[n] = "rng_awaitResp" =>
                pc'[n] \in {"rng_awaitResp", "rng_awaitReport", "rng_txFail", "loop"}
          /\ pc[n] = "rng_awaitReport" =>
                ~Sends(n) /\ pc'[n] \in {"rng_awaitReport", "loop", "panic"}
          /\ (pc[n] # "rng_txFail" /\ pc'[n] = "rng_txFail") =>
                ~Sends(n) /\ faults' = faults + 1
          /\ pc[n] = "rng_txFail" =>
                /\ ~Sends(n) /\ g_sequenceNum'[n] = g_sequenceNum[n]
                /\ pc'[n] \in {"rng_txFail", "loop"}
                /\ pc'[n] = "loop" => ret'[n] = "range_fail"]_vars
\* a call has returned false after dw3000_tx failed on its FINAL: the POLL
\* is the last frame the unit sent, the FINAL was built and never sent
C21_ReturnedAfterFinalTxFailure ==
    \E n \in Units :
        /\ pc[n] = "loop" /\ ret[n] = "range_fail"
        /\ twr[n][respRxTime] > 0 /\ twr[n][finalTxTime] = 0
        /\ lastTx[n].msgType = MSG_TYPE_POLL
        /\ g_sequenceNum[n] = SequenceAfter(SequenceAfter(lastTx[n].sequence))
        /\ g_stats[n].rangingFailures = 1


\* ------------------------------------------------------------------------
\* SpecSim: the build with ENABLE_SIMULATION true. uwb_init needs no
\* hardware and leaves every unit READY; loop() is the same code; a caller
\* outside the unit's slot may also call uwb_respond, dw3000_tx or
\* dw3000_rx before the delay of that branch.
\* ------------------------------------------------------------------------
\* config.h simulation parameters: millimetres, milliseconds, hundredths
SIM_BASE_DISTANCE_MM == 2000
SIM_AMPLITUDE_MM == 1000
SIM_PERIOD_MS == 10000
SIM_QUALITY == 95
\* the sine is sampled at this many points of a turn
SIN_STEPS == 12
\* 1000 * sin(2 * PI * k / SIN_STEPS)
SinMilli(k) ==
    LET q == k % SIN_STEPS
        half == IF q < 6 THEN q ELSE q - 6
        mag == CASE half = 0 -> 0
                 [] half \in {1, 5} -> 500
                 [] half \in {2, 4} -> 866
                 [] OTHER -> 1000
    IN  IF q < 6 THEN mag ELSE 0 - mag
\* utils.h generateSimulatedDistance(peer) at millis() = m, in millimetres
generateSimulatedDistance(peer, m) ==
    LET phase == (UNIT_NUMERIC_ID(peer) * SIN_STEPS) \div NUM_PEERS
        t == (SIN_STEPS * U32Mod(m, SIM_PERIOD_MS)) \div SIM_PERIOD_MS
        distance == SIM_BASE_DISTANCE_MM
                    + (SIM_AMPLITUDE_MM * SinMilli(t + phase)) \div 1000
    IN  IF distance < 100 THEN 100 ELSE distance
\* dw3000_tx and dw3000_rx in this build
dw3000_tx_sim(frame) == TRUE
dw3000_rx_sim(timeout_ms) == FALSE

\* loop(): own slot, uwb_range is entered
SimLoopRange(n) ==
    /\ InOwnSlot(n)
    /\ CurrentPeer(n) # n
    /\ g_stats' = [g_stats EXCEPT ![n].rangingAttempts = @ + 1]
    /\ g_uwbState' = [g_uwbState EXCEPT ![n] = UWB_STATE_RANGING]
    /\ peerID' = [peerID EXCEPT ![n] = CurrentPeer(n)]
    /\ result' = [result EXCEPT ![n] = UninitResult]
    /\ pc' = [pc EXCEPT ![n] = "rng_sim"]
    /\ lastIter' = [lastIter EXCEPT ![n] = "range"]
    /\ UNCHANGED <<ms, tof_dtu, udp, now, wake, g_sequenceNum, g_currentPeerIdx, g_lastResult,
                   twr, rxBuffer, rxDone, TX_TIME, RX_TIME, dwClock, resp,
                   lastTx, ret, faults>>
\* uwb_range, simulation branch: the result is made up and true returned;
\* loop() hands it to udp_send_distance
SimRangeDone(n) ==
    /\ pc[n] = "rng_sim"
    /\ \E udpOk \in BOOLEAN :
        LET newResult ==
                [success |-> TRUE,
                 distance |-> generateSimulatedDistance(peerID[n], U32(now)),
                 quality |-> SIM_QUALITY, peerID |-> peerID[n]]
            udpFails == newResult.quality >= QUALITY_THRESHOLD /\ ~udpOk
        IN  /\ ~udpOk => udpFails /\ faults < MaxFaults
            /\ faults' = IF udpFails THEN faults + 1 ELSE faults
            /\ RangeReturn(n, TRUE, newResult, udpOk)
    /\ UNCHANGED <<ms, tof_dtu, udp, now, g_sequenceNum, peerID, twr, rxBuffer, rxDone, TX_TIME,
                   RX_TIME, dwClock, resp, lastTx, lastIter>>
\* what a driver call outside the slot leaves behind: its return value,
\* then the delay of the branch
SimCallReturn(n, call, value) ==
    /\ OutOfSlot(n)
    /\ ret' = [ret EXCEPT ![n] = value]
    /\ lastIter' = [lastIter EXCEPT ![n] = call]
    /\ wake' = [wake EXCEPT ![n] = now + IDLE_SLOT_DELAY_MS]
    /\ UNCHANGED <<ms, tof_dtu, udp, now, pc, g_uwbState, g_sequenceNum, g_currentPeerIdx, g_stats,
                   g_lastResult, result, peerID, twr, rxBuffer, rxDone, TX_TIME,
                   RX_TIME, dwClock, resp, lastTx, faults>>
\* uwb_respond in the simulation build answering as if a POLL had come
uwb_respond_sim_Handles(timeout_ms) == TRUE
\* uwb_respond(ListenMs), simulation branch: return false
uwb_respond_sim(timeout_ms) == FALSE
SimRespond(n) ==
    SimCallReturn(n, "respond",
                  IF uwb_respond_sim(ListenMs) THEN "resp_ok" ELSE "resp_fail")
SimTxCall(n) ==
    \E dest \in Units, type \in MsgTypes :
        SimCallReturn(n, "tx",
            IF dw3000_tx_sim(build_frame(n, g_sequenceNum[n], type, dest, ZeroTWR, 0))
            THEN "tx_ok" ELSE "tx_fail")
SimRxCall(n) ==
    SimCallReturn(n, "rx",
                  IF dw3000_rx_sim(ListenMs) THEN "rx_ok" ELSE "rx_fail")
SimInit == ProtoStart(0, 0)
SimNext ==
    \/ \E n \in Units : LoopSkipSelf(n)
    \/ \E n \in Units : SimLoopRange(n)
    \/ \E n \in Units : SimRangeDone(n)
    \/ \E n \in Units : LoopIdleSlot(n)
    \/ \E n \in Units : SimRespond(n)
    \/ \E n \in Units : SimTxCall(n)
    \/ \E n \in Units : SimRxCall(n)
    \/ Advance
SpecSim == SimInit /\ [][SimNext]_vars

\* C22: in the simulation build uwb_range never completes an exchange: no
\* call of it returns true and no result is stored by it.
C22_SimRangeNeverSucceeds ==
    \A n \in Units : ret[n] # "range_ok" /\ ~g_lastResult[n].success
\* uwb_range has returned true with the synthetic distance and quality in
\* its result, which loop() sent on as it was
C22_SimRangeMadeUpResult ==
    \E n \in Units :
        /\ pc[n] = "loop" /\ ret[n] = "range_ok"
        /\ g_lastResult[n].success
        /\ g_lastResult[n].quality = SIM_QUALITY
        /\ g_lastResult[n].distance \in
              (SIM_BASE_DISTANCE_MM - SIM_AMPLITUDE_MM)..
              (SIM_BASE_DISTANCE_MM + SIM_AMPLITUDE_MM)
        /\ result[n] = g_lastResult[n]
        /\ g_stats[n].udpSendSuccess = 1
        /\ dwClock = 0


\* the unit n makes the driver call `call` outside its slot in this step
SimCalled(n, call) ==
    pc[n] = "loop" /\ wake'[n] # wake[n] /\ lastIter'[n] = call

\* C23: in the simulation build dw3000_tx always returns true, dw3000_rx
\* always returns false, and uwb_respond returns false; none of the three
\* puts a frame on the air or changes g_sequenceNum, and no unit ever
\* receives a frame.
C23_SimTransportInert ==
    [][\A n \in Units :
          /\ SimCalled(n, "tx") => ret'[n] = "tx_ok"
          /\ SimCalled(n, "rx") => ret'[n] = "rx_fail"
          /\ SimCalled(n, "respond") => ret'[n] = "resp_fail"
          /\ (SimCalled(n, "tx") \/ SimCalled(n, "rx") \/ SimCalled(n, "respond")) =>
                /\ ~Sends(n) /\ lastTx' = lastTx /\ dwClock' = dwClock
                /\ g_sequenceNum' = g_sequenceNum
                /\ g_uwbState' = g_uwbState
          /\ ~rxDone'[n] /\ rxBuffer'[n] = NoFrame]_vars
\* uwb_respond and dw3000_tx have returned to two units while the third
\* got its made-up range, and no frame was sent, received or numbered
C23_SimCallsReturned ==
    \E n, m, k \in Units :
        /\ ret[n] = "resp_fail" /\ lastIter[n] = "respond"
        /\ ret[m] = "tx_ok" /\ lastIter[m] = "tx"
        /\ ret[k] = "range_ok"
        /\ dwClock = 0
        /\ \A u \in Units :
              g_sequenceNum[u] = 0 /\ lastTx[u] = NoFrame /\ ~rxDone[u]


\* C24: loop() never ranges to the unit itself and moves its round-robin
\* index by one roster position per attempt: uwb_range is called for the
\* peer at g_currentPeerIdx, which is not UNIT_ID; when the call returns,
\* true or false, the index becomes (g_currentPeerIdx + 1) mod NUM_PEERS;
\* the index moves in no other step but the skip of the unit's own entry,
\* and it stays in 0..NUM_PEERS-1.
C24_RoundRobinSkipsSelf ==
    [][\A n \in Units :
          /\ RangeCalled(n) =>
                /\ peerID'[n] = PEER_IDS[g_currentPeerIdx[n] + 1]
                /\ peerID'[n] # n
                /\ g_currentPeerIdx'[n] = g_currentPeerIdx[n]
          /\ (RangeReturns(n, "range_ok") \/ RangeReturns(n, "range_fail")) =>
                g_currentPeerIdx'[n] = (g_currentPeerIdx[n] + 1) % NUM_PEERS
          /\ g_currentPeerIdx'[n] # g_currentPeerIdx[n] =>
                \/ RangeReturns(n, "range_ok") \/ RangeReturns(n, "range_fail")
                \/ /\ PEER_IDS[g_currentPeerIdx[n] + 1] = n
                   /\ g_currentPeerIdx'[n] = (g_currentPeerIdx[n] + 1) % NUM_PEERS
                   /\ pc'[n] = "loop" /\ g_stats'[n] = g_stats[n]
          /\ g_currentPeerIdx'[n] \in 0..(NUM_PEERS - 1)]_vars
\* a unit has made two attempts on two different peers, skipped itself,
\* and its index is back at the head of the roster
C24_IndexWrapped ==
    \E n \in Units :
        /\ pc[n] = "loop"
        /\ g_stats[n].rangingAttempts = 2
        /\ g_stats[n].rangingFailures = 2
        /\ g_currentPeerIdx[n] = 0
        /\ peerID[n] \notin {n, "-"}


\* ------------------------------------------------------------------------
\* Termination of the driver calls: every wait inside uwb_range and
\* uwb_respond is a dw3000_rx or dw3000_tx loop bounded by
\* millis() - start < limit
\* ------------------------------------------------------------------------
CallWaits == RxStates \cup {"rng_txFail", "rsp_txFail"}
\* the limit of the wait loop a call is in
WaitLimit(s) ==
    IF s \in {"rng_txFail", "rsp_txFail"} THEN TX_TIMEOUT_MS
    ELSE IF s = "rsp_awaitPoll" THEN ListenMs
    ELSE RANGING_TIMEOUT_MS
\* where a call can be after leaving a wait: later in the same call, or back
\* in loop() (a trap in the estimator ends the call without a return)
CallSuccessors(s) ==
    CASE s = "rng_awaitResp"   -> {"rng_awaitReport", "rng_txFail", "loop"}
      [] s = "rng_awaitReport" -> {"loop", "panic"}
      [] s = "rng_txFail"      -> {"loop"}
      [] s = "rsp_awaitPoll"   -> {"rsp_awaitFinal", "rsp_txFail", "loop"}
      [] s = "rsp_awaitFinal"  -> {"rsp_txFail", "loop"}
      [] s = "rsp_txFail"      -> {"loop"}
\* the steps that end the wait a unit is in
LeaveWait(n) ==
    \/ RangeTxFail(n) \/ RangeRespTimeout(n) \/ RangeRecvResp(n)
    \/ RangeReportTimeout(n) \/ RangeRecvReport(n)
    \/ RespondPollTimeout(n) \/ RespondRecvPoll(n) \/ RespondTxFail(n)
    \/ RespondFinalTimeout(n) \/ RespondRecvFinal(n)

\* C25: every wait of uwb_range and uwb_respond is bounded: its deadline is
\* at most the wait's timeout ahead, is never moved while the wait lasts,
\* the clock never passes it, the step that ends the wait is possible once
\* the deadline is reached with no frame received, and each wait is
\* followed only by a later stage of the same call or by the return to
\* loop(); so a call is over after at most three bounded waits, whatever
\* the peer does
C25_CallsTerminate ==
    [][\A n \in Units :
        pc[n] \in CallWaits =>
            /\ wake[n] - now <= WaitLimit(pc[n])
            /\ now' <= wake[n] \/ now' = now
            /\ pc'[n] = pc[n] => wake'[n] = wake[n]
            /\ pc'[n] # pc[n] => pc'[n] \in CallSuccessors(pc[n])
            /\ (wake[n] <= now /\ ~rxDone[n]) => ENABLED LeaveWait(n)]_vars
\* a responder sent RESP, heard nothing more (its receive buffer still holds
\* the POLL) and returned when the wait for FINAL timed out
C25_ReturnedFromSilentPeer ==
    \E n \in Units :
        /\ pc[n] = "loop"
        /\ ret[n] = "resp_fail"
        /\ resp[n].respTxTime # 0
        /\ resp[n].finalRxTime = 0
        /\ rxBuffer[n].msgType = MSG_TYPE_POLL
        /\ now >= RANGING_TIMEOUT_MS


\* ------------------------------------------------------------------------
\* SpecShort: the exchange of SpecProto with a station that sends frames
\* shorter than struct UWBFrame. dw3000_rx copies the *len bytes the radio
\* reports into the caller's uninitialised rxBuffer and returns true on any
\* frame with a good CRC.
\* ------------------------------------------------------------------------
\* a frame of MSGTYPE_OFFSET bytes: sequence and addresses arrive; the
\* msgType byte and the payload keep what the buffer held before, so the
\* msgType the caller reads is whatever byte was there
ShortFrameTx ==
    /\ faults < MaxFaults
    /\ \E m \in Units : Listening(m)
    /\ \E stale \in MsgTypes, dst \in Units :
        Transmit(FOREIGN_ID,
                 [sequence |-> 0, destAddr |-> dst, sourceAddr |-> FOREIGN_ID,
                  msgType |-> stale, payload |-> [k \in 1..PayloadWords |-> Indet],
                  len |-> MSGTYPE_OFFSET])
    /\ faults' = faults + 1
    /\ UNCHANGED <<ms, tof_dtu, udp, now, pc, wake, g_uwbState, g_sequenceNum, g_currentPeerIdx,
                   g_stats, g_lastResult, result, peerID, twr, resp, lastIter, ret>>
ShortNext ==
    \/ ProtoNext
    \/ ShortFrameTx
SpecShort == ProtoInit /\ [][ShortNext]_vars

\* C26: a unit goes on with an exchange (the initiator sends FINAL and waits
\* for REPORT, the responder sends RESP and waits for FINAL) only on a
\* received frame whose reported length covers the whole frame structure
C26_OnlyWholeFramesActedOn ==
    \A n \in Units :
        (pc[n] \in {"rng_awaitReport", "rsp_awaitFinal"} /\ ~rxDone[n])
            => rxBuffer[n].len >= FRAME_BYTES
\* the initiator took a nine-byte frame for the RESP: it sent FINAL carrying
\* timestamps read from buffer bytes the frame never wrote
C26_FinalAfterShortFrame ==
    \E n \in Units :
        /\ pc[n] = "rng_awaitReport"
        /\ rxBuffer[n].len = MSGTYPE_OFFSET
        /\ rxBuffer[n].sourceAddr = FOREIGN_ID
        /\ lastTx[n].msgType = MSG_TYPE_FINAL
        /\ lastTx[n].sourceAddr = n


\* the unit's only successful result so far was good enough to be handed to
\* udp_send_distance and no send has succeeded: the send of that result
\* failed, in the iteration of loop() the unit has just ended
SendJustFailed(n) ==
    /\ pc[n] = "loop" /\ lastIter[n] = "range" /\ ret[n] = "range_ok"
    /\ g_stats[n].rangingSuccesses = 1
    /\ result[n].quality >= QUALITY_THRESHOLD
    /\ g_stats[n].udpSendSuccess = 0
\* C27: a failed telemetry send is counted and is neither fatal nor
\* repeated: the iteration counts one udpSendFailures, moves
\* g_currentPeerIdx to the peer after the one ranged, leaves the driver
\* READY and the unit in loop() with delay(RANGING_INTERVAL_MS) running, and
\* no unit ever hands over more results than uwb_range returned (a second
\* hand-over of the same result would exceed that count)
C27_TelemetryFailureNotFatal ==
    \A n \in Units :
        /\ UdpHandOvers(g_stats[n]) <= g_stats[n].rangingSuccesses
        /\ SendJustFailed(n) =>
              /\ g_stats[n].udpSendFailures = 1
              /\ \E i \in 0..(NUM_PEERS - 1) :
                    /\ PEER_IDS[i + 1] = peerID[n]
                    /\ g_currentPeerIdx[n] = (i + 1) % NUM_PEERS
              /\ g_uwbState[n] = UWB_STATE_READY
              /\ wake[n] <= now + RANGING_INTERVAL_MS
\* a unit whose send of a result of quality 0.9 failed: the failure is
\* counted, nothing was sent, and the index is on the next peer
C27_SendFailedAndMovedOn ==
    \E n \in Units :
        /\ SendJustFailed(n)
        /\ result[n].quality = 90
        /\ g_stats[n].udpSendFailures = 1
        /\ g_stats[n].rangingFailures = 0
        /\ PEER_IDS[g_currentPeerIdx[n] + 1] # peerID[n]
        /\ faults = 1


\* ------------------------------------------------------------------------
\* SpecTof: the estimator on intervals of tens of milliseconds. A tick is
\* 15.65 ps, so a round trip that takes 67 ms (RANGING_TIMEOUT_MS allows
\* 100 ms) is 2^32 ticks and Ra * Rb leaves int64_t. The timestamps of this
\* study are multiples of 2^TickUnitBits ticks and twr holds them in that
\* unit: a product of two intervals is then a multiple of
\* 2^(2*TickUnitBits) ticks^2, and it is a value of int64_t exactly when its
\* multiplier lies in -2^(63-2*TickUnitBits) .. 2^(63-2*TickUnitBits)-1.
\* ------------------------------------------------------------------------
RECURSIVE Pow2(_)
Pow2(k) == IF k = 0 THEN 1 ELSE 2 * Pow2(k - 1)
\* x * 2^(2*TickUnitBits) is a value of int64_t
Int64Holds(x) ==
    LET limit == Pow2(63 - 2 * TickUnitBits)
    IN  (0 - limit) <= x /\ x < limit
\* q and r are the quotient and remainder of some m by s; the quotient of
\* m * 2^k by s, by long division
RECURSIVE LongDiv(_, _, _, _)
LongDiv(q, r, s, k) ==
    IF k = 0 THEN q
    ELSE LongDiv(2 * q + ((2 * r) \div s), (2 * r) % s, s, k - 1)
\* (n * 2^k) / s in C, truncating toward zero
ShiftDiv(n, s, k) ==
    LET an == IF n < 0 THEN 0 - n ELSE n
        as == IF s < 0 THEN 0 - s ELSE s
        q  == LongDiv(an \div as, an % as, as, k)
    IN  IF (n < 0) = (s < 0) THEN q ELSE 0 - q
\* tof_dtu of calculate_distance_from_twr, in ticks, for timestamps t given
\* in units of 2^TickUnitBits ticks; a signed overflow in Ra * Rb, Da * Db
\* or their difference is undefined behaviour, whose outcome is `undefined`
TofDtu(t, undefined) ==
    LET Ra == t[respRxTime] - t[pollTxTime]
        Rb == t[finalRxTime] - t[respTxTime]
        Da == t[respTxTime] - t[pollRxTime]
        Db == t[finalTxTime] - t[respRxTime]
    IN  IF /\ Int64Holds(Ra * Rb) /\ Int64Holds(Da * Db)
           /\ Int64Holds((Ra * Rb) - (Da * Db))
        THEN ShiftDiv((Ra * Rb) - (Da * Db), Ra + Rb + Da + Db, TickUnitBits)
        ELSE undefined
\* tof_dtu * TIME_UNIT * SPEED_OF_LIGHT / 2, in millimetres
DistanceOfTof(tof) ==
    LET a  == IF tof < 0 THEN 0 - tof ELSE tof
        mm == (a \div 1000) * UM_PER_TICK + (((a % 1000) * UM_PER_TICK) \div 1000)
    IN  IF tof < 0 THEN 0 - mm ELSE mm

\* device times 0 and 2^32 ticks and the ones next to them, in units
LongStamps ==
    {0, 1, Pow2(32 - TickUnitBits), Pow2(32 - TickUnitBits) + 1}
\* the timestamp sets of an exchange whose events are in order on both
\* clocks, with a non-zero denominator
TofInputs ==
    {t \in [TWRFields -> LongStamps] :
        TimestampsInOrder(t) /\ TwrDenominator(t) # 0}
\* two units, each about to run the estimator on the same timestamp set of
\* `inputs`, in different states otherwise
TofStart(inputs) ==
    /\ ms = U32(0)
    /\ tof_dtu = [n \in Units |-> 0]
    /\ udp = UdpIdle
    /\ now = 0
    /\ pc = [n \in Units |-> IF n \in {EST_UNIT, EST_PEER} THEN "rng_estimate" ELSE "loop"]
    /\ wake = [n \in Units |-> 0]
    /\ g_uwbState = [n \in Units |->
          IF n \in {EST_UNIT, EST_PEER} THEN UWB_STATE_RANGING ELSE UWB_STATE_READY]
    /\ \E seq \in 0..1 :
          g_sequenceNum = [n \in Units |-> IF n = EST_PEER THEN seq ELSE 0]
    /\ g_currentPeerIdx = [n \in Units |-> IF n = EST_UNIT THEN 1 ELSE 0]
    /\ g_stats = [n \in Units |->
          IF n \in {EST_UNIT, EST_PEER} THEN [ZeroStats EXCEPT !.rangingAttempts = 1]
          ELSE ZeroStats]
    /\ g_lastResult = [n \in Units |-> NoResult]
    /\ result = [n \in Units |-> UninitResult]
    /\ peerID = [n \in Units |->
          IF n = EST_UNIT THEN EST_PEER ELSE IF n = EST_PEER THEN EST_UNIT ELSE "-"]
    /\ \E t \in inputs :
          twr = [n \in Units |-> IF n \in {EST_UNIT, EST_PEER} THEN t ELSE ZeroTWR]
    /\ rxBuffer = [n \in Units |-> NoFrame]
    /\ rxDone = [n \in Units |-> FALSE]
    /\ TX_TIME = [n \in Units |-> 0]
    /\ RX_TIME = [n \in Units |-> 0]
    /\ dwClock = 0
    /\ resp = [n \in Units |-> NoResp]
    /\ lastTx = [n \in Units |-> NoFrame]
    /\ lastIter = [n \in Units |->
          IF n \in {EST_UNIT, EST_PEER} THEN "range" ELSE "none"]
    /\ ret = [n \in Units |-> "none"]
    /\ faults = 0
TofInit == TofStart(TofInputs)
\* uwb_range from the call of calculate_distance_from_twr to its return, and
\* loop() after it
RangeEstimate(n) ==
    /\ pc[n] = "rng_estimate"
    /\ \E undefined \in Uninit, udpOk \in BOOLEAN :
        LET tof == TofDtu(twr[n], undefined)
            distance == DistanceOfTof(tof)
            newResult == [success |-> TRUE, distance |-> distance,
                          quality |-> Quality(distance), peerID |-> peerID[n]]
            udpFails == newResult.quality >= QUALITY_THRESHOLD /\ ~udpOk
        IN  /\ tof_dtu' = [tof_dtu EXCEPT ![n] = tof]
            /\ ~udpOk => udpFails /\ faults < MaxFaults
            /\ faults' = IF udpFails THEN faults + 1 ELSE faults
            /\ RangeReturn(n, TRUE, newResult, udpOk)
    /\ UNCHANGED <<ms, udp, now, g_sequenceNum, peerID, twr, rxBuffer, rxDone, TX_TIME,
                   RX_TIME, dwClock, resp, lastTx, lastIter>>
TofNext == \E n \in Units : RangeEstimate(n)
SpecTof == TofInit /\ [][TofNext]_vars

\* the estimator has run on the unit's timestamp set
Estimated(n) == pc[n] = "loop" /\ ret[n] = "range_ok" /\ ~Unwritten(result[n])
\* q is (Ra*Rb - Da*Db) / (Ra+Rb+Da+Db) for the timestamp set t; q is a
\* tof_dtu of the model, below 2^30, so it is not a quotient of 2^30 or more
TofIsQuotient(q, t) ==
    LET Ra == t[respRxTime] - t[pollTxTime]
        Rb == t[finalRxTime] - t[respTxTime]
        Da == t[respTxTime] - t[pollRxTime]
        Db == t[finalTxTime] - t[respRxTime]
        n  == (Ra * Rb) - (Da * Db)
        s  == Ra + Rb + Da + Db
        whole == TruncDiv(n, s)
    IN  /\ whole < Pow2(30 - TickUnitBits)
        /\ (0 - whole) < Pow2(30 - TickUnitBits)
        /\ q = ShiftDiv(n, s, TickUnitBits)

\* C28: for every timestamp set with a non-zero denominator the estimator's
\* tof_dtu is the integer quotient (Ra*Rb - Da*Db) / (Ra+Rb+Da+Db)
C28_TofIsQuotient ==
    \A n \in Units : Estimated(n) => TofIsQuotient(tof_dtu[n], twr[n])
\* Ra = Rb = 2^32 ticks and Da = Db = 0: Ra * Rb = 2^64 is not a value of
\* int64_t, the quotient is 2^31 ticks and the estimator returned 1
C28_ProductLeftInt64 ==
    \E n \in Units :
        /\ Estimated(n)
        /\ twr[n][respRxTime] - twr[n][pollTxTime] = Pow2(32 - TickUnitBits)
        /\ twr[n][finalRxTime] - twr[n][respTxTime] = Pow2(32 - TickUnitBits)
        /\ twr[n][respTxTime] = twr[n][pollRxTime]
        /\ twr[n][finalTxTime] = twr[n][respRxTime]
        /\ tof_dtu[n] = 1


\* C29: the quality of a completed exchange is 0.3 or 0.9, and it is 0.3
\* exactly when the computed distance is negative or above 100 m; such a
\* result is below QUALITY_THRESHOLD, so a distance outside [0, 100] m is
\* counted as a success and never handed to udp_send_distance
C29_QualityFollowsPlausibility ==
    \A n \in Units :
        Estimated(n) =>
            LET implausible == result[n].distance < 0
                               \/ result[n].distance > MAX_PLAUSIBLE_MM
            IN  /\ result[n].quality \in {30, 90}
                /\ (result[n].quality = 30) <=> implausible
                /\ implausible => UdpHandOvers(g_stats[n]) = 0
                /\ g_stats[n].rangingSuccesses = 1
\* the estimator put one unit at more than 100 m: quality 0.3, nothing
\* handed over, while nothing failed
C29_FarResultKept ==
    \E n \in Units :
        /\ Estimated(n)
        /\ tof_dtu[n] > MaxGarbage
        /\ result[n].distance > MAX_PLAUSIBLE_MM
        /\ result[n].quality = 30
        /\ UdpHandOvers(g_stats[n]) = 0
        /\ faults = 0


C31_ReinitCanRecover ==
    \A n \in Units :
        (/\ LoopReady(n)
         /\ g_uwbState[n] = UWB_STATE_ERROR
         /\ U32Mod(U32(now), UWB_REINIT_PERIOD_MS) = 0)
            => ENABLED (LoopUwbNotReady(n) /\ g_uwbState'[n] = UWB_STATE_READY)
\* a unit called uwb_init again from loop() at millis() = 0, has made a
\* further iteration since, and is still in ERROR without one attempt
C31_StillInErrorAfterReinit ==
    \E n \in Units :
        /\ g_uwbState[n] = UWB_STATE_ERROR
        /\ lastIter[n] = "notready"
        /\ now >= WIFI_WAIT_MS
        /\ wake[n] > WIFI_WAIT_MS
        /\ g_stats[n].rangingAttempts = 0


\* ------------------------------------------------------------------------
\* SpecWrap: the estimator on an exchange during which the initiator's
\* 40-bit device time passes from 2^40 - 1 to 0. dw3000_read_reg64 returns
\* the 40-bit register value in a uint64_t; the intervals are differences of
\* those values, cast to int64_t.
\* ------------------------------------------------------------------------
\* the period of the device time, in units of 2^TickUnitBits ticks
CounterPeriod == Pow2(40 - TickUnitBits)
\* ticks from device time a to device time b of the same wrapping counter
\* (less than one period apart), in units
Elapsed(a, b) == (b - a) % CounterPeriod
\* the initiator's three timestamps are taken, in this order, while its
\* counter runs through the last two units before the wrap and the first
\* two after it; the responder's counter is far from its wrap
WrapInputs ==
    LET pos(x) == (x + 2) % CounterPeriod
    IN  {t \in [TWRFields -> {CounterPeriod - 2, CounterPeriod - 1, 0, 1}] :
            /\ pos(t[pollTxTime]) <= pos(t[respRxTime])
            /\ pos(t[respRxTime]) <= pos(t[finalTxTime])
            /\ t[pollRxTime] <= t[respTxTime] /\ t[respTxTime] <= t[finalRxTime]
            /\ t[finalRxTime] <= 1
            /\ TwrDenominator(t) # 0}
WrapInit == TofStart(WrapInputs)
SpecWrap == WrapInit /\ [][TofNext]_vars

\* C32: the intervals Ra, Rb, Da, Db the estimator forms are non-negative
\* and are the ticks elapsed on the counter the two timestamps were read
\* from, also when that counter wrapped between them
C32_IntervalsAreElapsed ==
    \A n \in Units :
        Estimated(n) =>
            LET t  == twr[n]
                Ra == t[respRxTime] - t[pollTxTime]
                Rb == t[finalRxTime] - t[respTxTime]
                Da == t[respTxTime] - t[pollRxTime]
                Db == t[finalTxTime] - t[respRxTime]
            IN  /\ Ra >= 0 /\ Rb >= 0 /\ Da >= 0 /\ Db >= 0
                /\ Ra = Elapsed(t[pollTxTime], t[respRxTime])
                /\ Rb = Elapsed(t[respTxTime], t[finalRxTime])
                /\ Da = Elapsed(t[pollRxTime], t[respTxTime])
                /\ Db = Elapsed(t[respRxTime], t[finalTxTime])
\* POLL left one unit before the wrap and RESP arrived one unit after it:
\* two units elapsed and the estimator ran with Ra = 2 - 2^40 ticks
C32_NegativeRoundTrip ==
    \E n \in Units :
        /\ Estimated(n)
        /\ twr[n][pollTxTime] = CounterPeriod - 1
        /\ twr[n][respRxTime] = 1
        /\ Elapsed(twr[n][pollTxTime], twr[n][respRxTime]) = 2
        /\ twr[n][respRxTime] - twr[n][pollTxTime] = 2 - CounterPeriod


\* ------------------------------------------------------------------------
\* SpecLen: the exchange of SpecProto with a station whose frames have any
\* length the radio can report in the 10-bit length field of RX_FINFO
\* ------------------------------------------------------------------------
\* uint8_t rxBuffer[128] of uwb_range and uwb_respond
RX_BUFFER_BYTES == 128
\* rxInfo & 0x3FF
RXFLEN_MAX == 1023
\* *len = (rxInfo & 0x3FF) - 2 on the uint16_t *len
dw3000_rx_len(rxInfo) == (((rxInfo % (RXFLEN_MAX + 1)) - 2) % 65536)
\* the length fields studied: the shortest, the CRC alone, a frame of
\* sizeof(UWBFrame), the largest that fits the buffer, the first that does
\* not, and the longest
RxLengthFields ==
    {0, 1, 2, FRAME_BYTES + 2, RX_BUFFER_BYTES + 2, RX_BUFFER_BYTES + 3, RXFLEN_MAX}
\* a frame with a good CRC and the length field rxInfo is received: dw3000_rx
\* reports dw3000_rx_len(rxInfo) and copies that many bytes to the buffer
FrameOfLength ==
    /\ faults < MaxFaults
    /\ \E m \in Units : Listening(m)
    /\ \E rxInfo \in RxLengthFields, t \in MsgTypes, dst \in Units :
        Transmit(FOREIGN_ID,
                 [sequence |-> 0, destAddr |-> dst, sourceAddr |-> FOREIGN_ID,
                  msgType |-> t, payload |-> [k \in 1..PayloadWords |-> Indet],
                  len |-> dw3000_rx_len(rxInfo)])
    /\ faults' = faults + 1
    /\ UNCHANGED <<ms, tof_dtu, udp, now, pc, wake, g_uwbState, g_sequenceNum,
                   g_currentPeerIdx, g_stats, g_lastResult, result, peerID, twr,
                   resp, lastIter, ret>>
LenNext ==
    \/ ProtoNext
    \/ FrameOfLength
SpecLen == ProtoInit /\ [][LenNext]_vars

\* C33: the length dw3000_rx reports, and copies into the caller's 128-byte
\* buffer, lies in 0..128 for every received frame
C33_LengthFitsBuffer ==
    \A n \in Units :
        rxBuffer[n].len \in 0..RX_BUFFER_BYTES
\* a frame whose length field is 0 was received by a unit waiting for a
\* POLL: the reported length is 65534
C33_LengthUnderflowed ==
    \E n \in Units :
        /\ pc[n] = "rsp_awaitPoll" /\ rxDone[n]
        /\ rxBuffer[n].sourceAddr = FOREIGN_ID
        /\ rxBuffer[n].len = 65534


\* C34: whenever a unit is between two iterations of loop() its counters
\* satisfy rangingAttempts = rangingSuccesses + rangingFailures and
\* udpSendSuccess + udpSendFailures <= rangingSuccesses, and no step makes
\* one of the five counters smaller
C34_CountersConsistent ==
    [][\A n \in Units :
          /\ pc'[n] = "loop" =>
                /\ g_stats'[n].rangingAttempts =
                      g_stats'[n].rangingSuccesses + g_stats'[n].rangingFailures
                /\ UdpHandOvers(g_stats'[n]) <= g_stats'[n].rangingSuccesses
          /\ g_stats'[n].rangingAttempts >= g_stats[n].rangingAttempts
          /\ g_stats'[n].rangingSuccesses >= g_stats[n].rangingSuccesses
          /\ g_stats'[n].rangingFailures >= g_stats[n].rangingFailures
          /\ g_stats'[n].udpSendSuccess >= g_stats[n].udpSendSuccess
          /\ g_stats'[n].udpSendFailures >= g_stats[n].udpSendFailures]_vars
\* one unit has completed a failed attempt, another a successful one whose
\* result was sent
C34_CountedBothOutcomes ==
    \E n, m \in Units :
        /\ pc[n] = "loop" /\ g_stats[n].rangingAttempts = 1
        /\ g_stats[n].rangingFailures = 1 /\ g_stats[n].rangingSuccesses = 0
        /\ pc[m] = "loop" /\ g_stats[m].rangingAttempts = 1
        /\ g_stats[m].rangingSuccesses = 1 /\ g_stats[m].udpSendSuccess = 1
        /\ g_stats[m].rangingFailures = 0 /\ g_stats[m].udpSendFailures = 0


\* C35: the attempts of one unit go round the roster: an attempt is never
\* with the unit itself nor with the peer of the unit's previous attempt but
\* with the next other unit after that peer in roster order, so with three
\* units the two peers alternate and between two attempts with one peer the
\* other is attempted exactly once, whether the attempts fail or succeed
C35_PeersInRosterOrder ==
    [][\A n \in Units :
          RangeCalled(n) =>
              /\ peerID'[n] \in Units \ {n, peerID[n]}
              /\ peerID[n] # "-" =>
                    \E i \in 0..(NUM_PEERS - 1) :
                        /\ PEER_IDS[i + 1] = peerID[n]
                        /\ peerID'[n] =
                              IF PEER_IDS[((i + 1) % NUM_PEERS) + 1] # n
                              THEN PEER_IDS[((i + 1) % NUM_PEERS) + 1]
                              ELSE PEER_IDS[((i + 2) % NUM_PEERS) + 1]]_vars
\* a unit is in its third attempt, with the peer of its first
C35_BackAtFirstPeer ==
    \E n \in Units :
        /\ pc[n] \in RangeStates
        /\ g_stats[n].rangingAttempts = 3
        /\ g_stats[n].rangingFailures = 2
        /\ peerID[n] # n


\* C36: a ranging attempt starts only in a loop() iteration that found the
\* UWB driver READY and the clock inside the unit's own slot, Wi-Fi being
\* connected; an iteration that finds Wi-Fi down, the driver not READY or the
\* clock outside the slot leaves rangingAttempts, g_currentPeerIdx and
\* g_sequenceNum as they are and transmits no frame
C36_AttemptNeedsAllThree ==
    [][\A n \in Units :
          /\ (RangeCalled(n) \/ g_stats'[n].rangingAttempts # g_stats[n].rangingAttempts) =>
                /\ LoopReady(n)
                /\ g_uwbState[n] = UWB_STATE_READY
                /\ isMyTimeSlot(n, U32(now))
                /\ lastIter'[n] # "nowifi"
          /\ (/\ LoopReady(n)
              /\ wake'[n] # wake[n]
              /\ \/ lastIter'[n] = "nowifi"
                 \/ g_uwbState[n] # UWB_STATE_READY
                 \/ ~isMyTimeSlot(n, U32(now))) =>
                /\ g_stats'[n].rangingAttempts = g_stats[n].rangingAttempts
                /\ g_currentPeerIdx'[n] = g_currentPeerIdx[n]
                /\ g_sequenceNum'[n] = g_sequenceNum[n]
                /\ ~Sends(n)
                /\ lastTx'[n] = lastTx[n]
                /\ pc'[n] = "loop"]_vars
\* while one unit has made an attempt, another went through an iteration
\* outside its slot and a third through one without Wi-Fi, and neither has
\* counted an attempt, moved its index or used a sequence number
C36_OthersStoodStill ==
    \E n, m, k \in Units :
        /\ pc[n] = "loop" /\ lastIter[n] = "idle"
        /\ g_stats[n].rangingAttempts = 0 /\ g_sequenceNum[n] = 0
        /\ g_currentPeerIdx[n] = 0 /\ lastTx[n] = NoFrame
        /\ pc[m] = "loop" /\ lastIter[m] = "nowifi"
        /\ g_stats[m].rangingAttempts = 0 /\ g_sequenceNum[m] = 0
        /\ g_currentPeerIdx[m] = 0 /\ lastTx[m] = NoFrame
        /\ pc[k] = "loop" /\ g_stats[k].rangingAttempts = 1


\* ------------------------------------------------------------------------
\* uwb_respond and the width of the source address
\* ------------------------------------------------------------------------
\* a well-formed frame of a transmitter whose 16-bit short address has a
\* non-zero high byte reaches the listening units
WideAddrTx ==
    /\ faults < MaxFaults
    /\ \E m \in Units : Listening(m)
    /\ \E t \in MsgTypes, dst \in Units :
        Transmit(FOREIGN_WIDE_ID,
                 [sequence |-> 0, destAddr |-> dst, sourceAddr |-> FOREIGN_WIDE_ID,
                  msgType |-> t, payload |-> [k \in 1..PayloadWords |-> Indet],
                  len |-> FRAME_BYTES])
    /\ faults' = faults + 1
    /\ UNCHANGED <<ms, tof_dtu, udp, now, pc, wake, g_uwbState, g_sequenceNum, g_currentPeerIdx,
                   g_stats, g_lastResult, result, peerID, twr, resp, lastIter, ret>>
AddrNext ==
    \/ ProtoNext
    \/ WideAddrTx
SpecAddr == ProtoInit /\ [][AddrNext]_vars

\* C37: within one call of uwb_respond the RESP goes to the source address
\* of the POLL the call accepted and the REPORT goes where the RESP went,
\* whoever sent the FINAL in between; both carry the responder's UNIT_ID as
\* their source
C37_RepliesGoToPollSource ==
    [][\A n \in Units :
          /\ (pc[n] = "rsp_awaitPoll" /\ Sends(n)) =>
                /\ lastTx'[n].msgType = MSG_TYPE_RESP
                /\ lastTx'[n].destAddr = rxBuffer[n].sourceAddr
                /\ lastTx'[n].sourceAddr = n
          /\ (pc[n] = "rsp_awaitFinal" /\ Sends(n)) =>
                /\ lastTx'[n].msgType = MSG_TYPE_REPORT
                /\ lastTx[n].msgType = MSG_TYPE_RESP
                /\ lastTx'[n].destAddr = lastTx[n].destAddr
                /\ lastTx'[n].sourceAddr = n]_vars
\* a responder accepted the POLL of the address 0x0100 + 'X' and sent its
\* RESP to the address 'X'
C37_RespToLowByte ==
    \E n \in Units :
        /\ pc[n] = "rsp_awaitFinal"
        /\ rxBuffer[n].msgType = MSG_TYPE_POLL
        /\ rxBuffer[n].sourceAddr = FOREIGN_WIDE_ID
        /\ lastTx[n].msgType = MSG_TYPE_RESP
        /\ lastTx[n].destAddr = FOREIGN_ID


\* C38: two consecutive attempts of one unit start at least
\* RANGING_INTERVAL_MS apart: when uwb_range returns the unit sleeps for
\* RANGING_INTERVAL_MS, it starts nothing before the sleep is over, and so
\* its k-th attempt starts no sooner than (k-1)*RANGING_INTERVAL_MS after its
\* first; what is left of the slot occurrence an attempt starts in is
\* shorter than that sleep, so the occurrence sees no second attempt
C38_AttemptsSpaced ==
    [][\A n \in Units :
          /\ (pc[n] \in RangeStates /\ pc'[n] = "loop") =>
                wake'[n] = now + RANGING_INTERVAL_MS
          /\ (pc[n] = "loop" /\ pc'[n] = "loop") => wake'[n] >= wake[n]
          /\ RangeCalled(n) =>
                /\ wake[n] <= now
                /\ now >= g_stats[n].rangingAttempts * RANGING_INTERVAL_MS
                /\ LET slotTime == U32Mod(U32(now), CYCLE_DURATION_MS) - MY_SLOT_OFFSET_MS(n)
                   IN  /\ slotTime \in 0..(TIME_SLOT_DURATION_MS - 1)
                       /\ TIME_SLOT_DURATION_MS - slotTime < RANGING_INTERVAL_MS]_vars
\* a unit is in its second attempt, in the occurrence of its slot that
\* follows the one of its first
C38_SecondAttemptNextCycle ==
    \E n \in Units :
        /\ pc[n] \in RangeStates
        /\ g_stats[n].rangingAttempts = 2
        /\ now >= CYCLE_DURATION_MS
        /\ now < 2 * CYCLE_DURATION_MS


\* ------------------------------------------------------------------------
\* udp_send, one loop pass per step (SpecUdp)
\* ------------------------------------------------------------------------
\* the test after g_udp.write and g_udp.endPacket with the byte count left out
PacketSent_IgnoresWritten(endPacket, written, length) == endPacket
\* if (g_udp.endPacket()) { if (written == length) return true; ... }
PacketSent(endPacket, written, length) == endPacket /\ written = length

\* udp_send(data, length) is called: it returns false at once when
\* wifi_is_connected() is false, and enters its loop with attempt = 0 otherwise
UdpSendCall ==
    /\ udp.pc \in {"idle", "done"}
    /\ \E length \in 1..MaxUdpLen, connected \in BOOLEAN :
        udp' = [UdpIdle EXCEPT !.pc = IF connected THEN "attempt" ELSE "done",
                               !.connected = connected,
                               !.length = length]
    /\ UNCHANGED <<ms, tof_dtu, now, pc, wake, g_uwbState, g_sequenceNum, g_currentPeerIdx,
                   g_stats, g_lastResult, result, peerID, twr, rxBuffer, rxDone,
                   TX_TIME, RX_TIME, dwClock, resp, lastTx, lastIter, ret, faults>>

\* one pass of the for loop: beginPacket, write, endPacket, then return true,
\* or delay(UDP_RETRY_DELAY_MS * (attempt + 1)) and attempt++, or, after the
\* last pass, attempt++ and return false
UdpSendAttempt ==
    /\ udp.pc = "attempt"
    /\ \E endPacket \in BOOLEAN, written \in 0..udp.length :
        LET tries == Append(udp.tries, [endPacket |-> endPacket, written |-> written])
        IN  udp' =
              IF PacketSent(endPacket, written, udp.length)
              THEN [udp EXCEPT !.tries = tries, !.pc = "done", !.ret = TRUE]
              ELSE IF udp.attempt < UDP_RETRY_COUNT - 1
              THEN [udp EXCEPT !.tries = tries, !.attempt = @ + 1,
                               !.waited = @ + UDP_RETRY_DELAY_MS * (udp.attempt + 1)]
              ELSE [udp EXCEPT !.tries = tries, !.attempt = @ + 1, !.pc = "done"]
    /\ UNCHANGED <<ms, tof_dtu, now, pc, wake, g_uwbState, g_sequenceNum, g_currentPeerIdx,
                   g_stats, g_lastResult, result, peerID, twr, rxBuffer, rxDone,
                   TX_TIME, RX_TIME, dwClock, resp, lastTx, lastIter, ret, faults>>
UdpNext ==
    \/ UdpSendCall
    \/ UdpSendAttempt
UdpInit ==
    /\ ms = U32(0)
    /\ SystemIdle
SpecUdp == UdpInit /\ [][UdpNext]_vars

\* attempt i of the call wrote every byte and its packet was sent
WholePacket(i) ==
    udp.tries[i].endPacket /\ udp.tries[i].written = udp.length

\* C39: a call of udp_send makes at most UDP_RETRY_COUNT attempts and none
\* after an attempt whose packet was sent with every byte written; it
\* returns true exactly when its last attempt was such an attempt, false
\* after UDP_RETRY_COUNT attempts of which none was, and false without any
\* attempt when Wi-Fi is not connected
C39_UdpSendRetries ==
    /\ Len(udp.tries) <= UDP_RETRY_COUNT
    /\ \A i \in 1..(Len(udp.tries) - 1) : ~WholePacket(i)
    /\ ~udp.connected => udp.tries = <<>> /\ ~udp.ret
    /\ udp.pc = "attempt" => udp.connected /\ Len(udp.tries) < UDP_RETRY_COUNT
    /\ (udp.pc = "done" /\ udp.connected) =>
          /\ udp.tries # <<>>
          /\ udp.ret <=> WholePacket(Len(udp.tries))
          /\ ~udp.ret => Len(udp.tries) = UDP_RETRY_COUNT
\* a call returned true at its third attempt, after an attempt whose packet
\* was not sent and one whose packet was sent short of a byte
C39_SentAtThirdAttempt ==
    /\ udp.pc = "done" /\ udp.ret
    /\ Len(udp.tries) = UDP_RETRY_COUNT
    /\ ~udp.tries[1].endPacket
    /\ udp.tries[2].endPacket /\ udp.tries[2].written < udp.length
    /\ udp.waited = UDP_RETRY_DELAY_MS + 2 * UDP_RETRY_DELAY_MS


\* ------------------------------------------------------------------------
\* utils.h: getCurrentPeerIndex
\* ------------------------------------------------------------------------
\* getCurrentPeerIndex returning peerIdx itself, without the pass that skips
\* the unit's own roster entry
getCurrentPeerIndex_NoSkip(u, m) ==
    LET slotTime  == U32Mod(U32Sub(m, MY_SLOT_OFFSET_MS(u)), TIME_SLOT_DURATION_MS)
        peerCount == Cardinality({i \in 0..(NUM_PEERS - 1) : PEER_IDS[i + 1] # u})
    IN  IF peerCount = 0 THEN 0 - 1
        ELSE (slotTime \div (TIME_SLOT_DURATION_MS \div peerCount)) % peerCount
\* getCurrentPeerIndex() of the unit u at millis() = m; millis() -
\* MY_SLOT_OFFSET_MS is an unsigned long difference
getCurrentPeerIndex(u, m) ==
    LET slotTime  == U32Mod(U32Sub(m, MY_SLOT_OFFSET_MS(u)), TIME_SLOT_DURATION_MS)
        others    == {i \in 0..(NUM_PEERS - 1) : PEER_IDS[i + 1] # u}
        peerCount == Cardinality(others)
        peerIdx   == (slotTime \div (TIME_SLOT_DURATION_MS \div peerCount)) % peerCount
        \* the roster entries that are not the unit, counted from 0 by actualIdx
        found     == {i \in others :
                         Cardinality({j \in others : j < i}) = peerIdx}
    IN  IF peerCount = 0 THEN 0 - 1
        ELSE IF found # {} THEN CHOOSE i \in found : TRUE
        ELSE 0

\* C40: at every value of millis(), those below MY_SLOT_OFFSET_MS where the
\* unsigned difference wraps included, getCurrentPeerIndex of a unit is the
\* roster index of another unit, never the unit's own
C40_NeverOwnIndex ==
    \A u \in Units :
        /\ getCurrentPeerIndex(u, ms) \in 0..(NUM_PEERS - 1)
        /\ PEER_IDS[getCurrentPeerIndex(u, ms) + 1] # u
\* millis() = 150 is below the slot offset 400 of unit C: the difference
\* wraps to 2^32 - 250, slotTime is 46 and the function returns index 0
C40_WrappedDifference ==
    /\ ms = U32(150)
    /\ U32Mod(U32Sub(ms, MY_SLOT_OFFSET_MS("C")), TIME_SLOT_DURATION_MS) = 46
    /\ getCurrentPeerIndex("C", ms) = 0

====
